---------------------------- MODULE Spec2Model ----------------------------
(***************************************************************************)
(* A model of the VI filter pipeline of angrylion-rdp-plus:                *)
(*   - src/core/vi.c: register decode (vi_process_start), the scanline     *)
(*     loop of the normal middle stage (vi_process), the end stage and     *)
(*     vi_update;                                                          *)
(*   - src/core/parallel.cpp: the worker pool (class Parallel).            *)
(*                                                                         *)
(* The specifications share the variables:                                 *)
(*   Spec / FairSpec  the emulator thread and the pool's worker threads,   *)
(*                    statement by statement;                              *)
(*   SpecStart        sequences of single-threaded vi_update calls over    *)
(*                    register states;                                     *)
(*   SpecMiddle       the scanline loops of vi_process, one loop per       *)
(*                    worker, for num_workers = 1 and num_workers = N.     *)
(*   SpecField        the interlace history over sequences of frames;      *)
(*   SpecUpdate       vi_update in both modes with vi_init, vi_screenshot  *)
(*                    and mode changes;                                    *)
(*   SpecColumns      one invocation of vi_process column by column, with  *)
(*                    the scanline caches and their markers.               *)
(*   SpecPrescale     vi_update in both modes and the range of prescale    *)
(*                    its middle stage stores to.                          *)
(***************************************************************************)
EXTENDS Integers, Naturals, Sequences, FiniteSets, TLC

VARIABLES
    regs,       \* the register window of plugin_get_vi_registers()
    config,     \* struct core_config: num_workers, vi.mode, vi.widescreen
    vi,         \* the statics of vi.c (geometry, interlace history, latches)
    obs,        \* what the last vi_update did (stages run, sink calls)
    m_task,             \* Parallel::m_task
    m_workers_active,   \* Parallel::m_workers_active
    m_accept_work,      \* Parallel::m_accept_work
    m_mutex,            \* owner of Parallel::m_mutex, or Unlocked
    pc,         \* position of the emulator thread and of the late caller
    wpc,        \* position of each worker thread in do_work
    pool,       \* bookkeeping of the pool run: invocations, counters
    loops,      \* SpecMiddle: the locals of each vi_process invocation
    written     \* SpecMiddle: the prescale cells each invocation wrote

vars == <<regs, config, vi, obs, m_task, m_workers_active, m_accept_work, m_mutex,
          pc, wpc, pool, loops, written>>

viVars   == <<regs, config, vi, obs>>
poolVars == <<m_task, m_workers_active, m_accept_work, m_mutex, pc, wpc, pool>>
midVars  == <<loops, written>>

-----------------------------------------------------------------------------
(* Program constants of vi.c                                               *)

H_RES_NTSC == 640
V_SYNC_NTSC == 525
V_SYNC_PAL == 625
PRESCALE_WIDTH == H_RES_NTSC
PRESCALE_HEIGHT == V_SYNC_PAL

\* compile-time switch of the TV fade-out emulation (and of the code in its #if)
ENABLE_TVFADEOUT == 0

VI_TYPE_RGBA5551 == 2
VI_AA_REPLICATE == 3

-----------------------------------------------------------------------------
(* C integer arithmetic                                                    *)

Pow2(n) == 2 ^ n

\* x >> n on a non-negative value, and on a negative int32 (arithmetic shift)
Shr(x, n) == x \div Pow2(n)

\* (x >> n) & (2^w - 1) for x >= 0
Bits(x, n, w) == (x \div Pow2(n)) % Pow2(w)

\* C's a / b for b > 0: truncation toward zero
CDiv(a, b) == IF a >= 0 THEN a \div b ELSE -((-a) \div b)

BoolInt(b) == IF b THEN 1 ELSE 0

-----------------------------------------------------------------------------
(* union vi_reg_ctrl: the bit fields of VI_STATUS                          *)

ctrl_type(raw)              == Bits(raw, 0, 2)
ctrl_divot_enable(raw)      == Bits(raw, 4, 1)
ctrl_vbus_clock_enable(raw) == Bits(raw, 5, 1)
ctrl_serrate(raw)           == Bits(raw, 6, 1)
ctrl_aa_mode(raw)           == Bits(raw, 8, 2)

-----------------------------------------------------------------------------
(* vi_init: the statics of vi.c after initialisation.  Statics that        *)
(* vi_init does not assign keep their zero initialisation.                 *)

\* a vi_init that also clears the warning latches
ViInitHistory_ResetWarnings(s) ==
    [s EXCEPT !.prevvicurrent = 0,
              !.emucontrolsvicurrent = -1,
              !.prevserrate = 0,
              !.oldlowerfield = 0,
              !.oldvstart = 1337,
              !.prevwasblank = 0,
              !.vi_mode = "NORMAL",
              !.nolerp = 0, !.vbusclock = 0]

ViInitHistory(s) ==
    [s EXCEPT !.prevvicurrent = 0,
              !.emucontrolsvicurrent = -1,
              !.prevserrate = 0,
              !.oldlowerfield = 0,
              !.oldvstart = 1337,
              !.prevwasblank = 0,
              !.vi_mode = "NORMAL"]

ViZero ==
    [prevvicurrent |-> 0, emucontrolsvicurrent |-> 0, prevserrate |-> 0,
     oldlowerfield |-> 0, oldvstart |-> 0, prevwasblank |-> 0,
     vactivelines |-> 0, ispal |-> 0, minhpass |-> 0, maxhpass |-> 0,
     x_add |-> 0, x_start_init |-> 0, y_add |-> 0, y_start |-> 0,
     v_sync |-> 0, vi_width_low |-> 0, frame_buffer |-> 0,
     fetch_filter |-> 0,
     screenshot_path |-> 0,
     prescale_ptr |-> 0, linecount |-> 0,
     ctrl |-> 0, hres |-> 0, vres |-> 0, v_start |-> 0, h_start |-> 0,
     hres_raw |-> 0, vres_raw |-> 0, vi_mode |-> "NORMAL",
     nolerp |-> 0, vbusclock |-> 0]

-----------------------------------------------------------------------------
(* vi_process_start: decode the registers r into the statics s.            *)
(* The result holds the new statics (st), the return value (ret), the      *)
(* locals the later stages and the checks refer to, and the warnings       *)
(* emitted.  Statics written after an early return keep their old value.   *)

\* StartHorizontal without the advance of x_start_init at line 250
StartHorizontal_NoAdvance(s, r) ==
    LET v_start0 == Bits(r.VI_V_START, 16, 10)
        h_start0 == Bits(r.VI_H_START, 16, 10)
        v_sync   == Bits(r.VI_V_SYNC, 0, 10)
        x_add    == Bits(r.VI_X_SCALE, 0, 12)
        ispal    == v_sync > (V_SYNC_NTSC + 25)
        h_start1 == h_start0 - (IF ispal THEN 128 ELSE 108)
        hres0    == Bits(r.VI_H_START, 0, 10) - h_start0
        clamped  == h_start1 < 0
    IN  [v_start |-> v_start0,
         vres |-> Shr(Bits(r.VI_V_START, 0, 10) - v_start0, 1),
         raw |-> r.VI_STATUS,
         warn_vbus |-> ctrl_vbus_clock_enable(r.VI_STATUS) = 1 /\ s.vbusclock = 0,
         warn_nolerp |-> /\ ctrl_aa_mode(r.VI_STATUS) = VI_AA_REPLICATE
                         /\ ctrl_type(r.VI_STATUS) = VI_TYPE_RGBA5551
                         /\ s.nolerp = 0
                         /\ h_start0 < 128
                         /\ x_add <= 512,
         v_sync |-> v_sync,
         x_add |-> x_add,
         ispal |-> ispal,
         x_start_init |-> Bits(r.VI_X_SCALE, 16, 12),
         hres |-> IF clamped THEN hres0 + h_start1 ELSE hres0,
         h_start |-> IF clamped THEN 0 ELSE h_start1,
         h_start_clamped |-> clamped]

\* lines 207-255: window decode, warnings, PAL/NTSC offset, left clamp
StartHorizontal(s, r) ==
    LET v_start0 == Bits(r.VI_V_START, 16, 10)
        h_start0 == Bits(r.VI_H_START, 16, 10)
        v_end    == Bits(r.VI_V_START, 0, 10)
        h_end0   == Bits(r.VI_H_START, 0, 10)
        hres0    == h_end0 - h_start0
        vres0    == Shr(v_end - v_start0, 1)
        raw      == r.VI_STATUS
        warn_vbus == ctrl_vbus_clock_enable(raw) = 1 /\ s.vbusclock = 0
        v_sync   == Bits(r.VI_V_SYNC, 0, 10)
        x_add    == Bits(r.VI_X_SCALE, 0, 12)
        warn_nolerp == /\ ctrl_aa_mode(raw) = VI_AA_REPLICATE
                       /\ ctrl_type(raw) = VI_TYPE_RGBA5551
                       /\ s.nolerp = 0
                       /\ h_start0 < 128
                       /\ x_add <= 512
        ispal    == v_sync > (V_SYNC_NTSC + 25)
        h_start1 == h_start0 - (IF ispal THEN 128 ELSE 108)
        x_start_init0 == Bits(r.VI_X_SCALE, 16, 12)
        clamped  == h_start1 < 0
    IN  [v_start |-> v_start0,
         vres |-> vres0,
         raw |-> raw,
         warn_vbus |-> warn_vbus,
         warn_nolerp |-> warn_nolerp,
         v_sync |-> v_sync,
         x_add |-> x_add,
         ispal |-> ispal,
         x_start_init |-> IF clamped THEN x_start_init0 + x_add * (-h_start1)
                                     ELSE x_start_init0,
         hres |-> IF clamped THEN hres0 + h_start1 ELSE hres0,
         h_start |-> IF clamped THEN 0 ELSE h_start1,
         h_start_clamped |-> clamped]

\* StartInterlace deciding on any valid-interlace frame, without the test
\* of prevserrate at line 258
StartInterlace_AnyFrame(s, r, raw, v_start) ==
    LET vcur == r.VI_V_CURRENT_LINE % 2
        validinterlace == ctrl_type(raw) \div 2 = 1 /\ ctrl_serrate(raw) = 1
        emu == IF validinterlace /\ s.emucontrolsvicurrent < 0
               THEN BoolInt(vcur # s.prevvicurrent)
               ELSE s.emucontrolsvicurrent
        lowerfield ==
            IF ~validinterlace THEN 0
            ELSE IF emu = 1 THEN (IF vcur = 1 THEN 0 ELSE 1)
            ELSE IF emu = 0
                 THEN (IF v_start = s.oldvstart
                       THEN (IF s.oldlowerfield = 1 THEN 0 ELSE 1)
                       ELSE BoolInt(v_start < s.oldvstart))
            ELSE 0
    IN  [validinterlace |-> validinterlace,
         emucontrolsvicurrent |-> emu,
         lowerfield |-> lowerfield,
         oldlowerfield |-> lowerfield,
         prevserrate |-> BoolInt(validinterlace),
         prevvicurrent |-> IF validinterlace THEN vcur ELSE s.prevvicurrent,
         oldvstart |-> IF validinterlace THEN v_start ELSE s.oldvstart]

\* StartInterlace that repeats the previous field when v_start is unchanged
StartInterlace_SameField(s, r, raw, v_start) ==
    LET vcur == r.VI_V_CURRENT_LINE % 2
        validinterlace == ctrl_type(raw) \div 2 = 1 /\ ctrl_serrate(raw) = 1
        emu == IF validinterlace /\ s.prevserrate # 0 /\ s.emucontrolsvicurrent < 0
               THEN BoolInt(vcur # s.prevvicurrent)
               ELSE s.emucontrolsvicurrent
        lowerfield ==
            IF ~validinterlace THEN 0
            ELSE IF emu = 1 THEN (IF vcur = 1 THEN 0 ELSE 1)
            ELSE IF emu = 0
                 THEN (IF v_start = s.oldvstart
                       THEN s.oldlowerfield
                       ELSE BoolInt(v_start < s.oldvstart))
            ELSE 0
    IN  [validinterlace |-> validinterlace,
         emucontrolsvicurrent |-> emu,
         lowerfield |-> lowerfield,
         oldlowerfield |-> lowerfield,
         prevserrate |-> BoolInt(validinterlace),
         prevvicurrent |-> IF validinterlace THEN vcur ELSE s.prevvicurrent,
         oldvstart |-> IF validinterlace THEN v_start ELSE s.oldvstart]

\* lines 257-284: interlace field determination and its history
\* StartInterlace without the test emucontrolsvicurrent < 0 of line 258:
\* every second valid-interlace frame decides again
StartInterlace_Redecide(s, r, raw, v_start) ==
    LET vcur == r.VI_V_CURRENT_LINE % 2
        validinterlace == ctrl_type(raw) \div 2 = 1 /\ ctrl_serrate(raw) = 1
        emu == IF validinterlace /\ s.prevserrate # 0
               THEN BoolInt(vcur # s.prevvicurrent)
               ELSE s.emucontrolsvicurrent
        lowerfield ==
            IF ~validinterlace THEN 0
            ELSE IF emu = 1 THEN (IF vcur = 1 THEN 0 ELSE 1)
            ELSE IF emu = 0
                 THEN (IF v_start = s.oldvstart
                       THEN (IF s.oldlowerfield = 1 THEN 0 ELSE 1)
                       ELSE BoolInt(v_start < s.oldvstart))
            ELSE 0
    IN  [validinterlace |-> validinterlace,
         emucontrolsvicurrent |-> emu,
         lowerfield |-> lowerfield,
         oldlowerfield |-> lowerfield,
         prevserrate |-> BoolInt(validinterlace),
         prevvicurrent |-> IF validinterlace THEN vcur ELSE s.prevvicurrent,
         oldvstart |-> IF validinterlace THEN v_start ELSE s.oldvstart]

\* StartInterlace with line 275 left out: oldlowerfield keeps the field of
\* the frame before
StartInterlace_EndFieldLags(s, r, raw, v_start) ==
    LET vcur == r.VI_V_CURRENT_LINE % 2
        validinterlace == ctrl_type(raw) \div 2 = 1 /\ ctrl_serrate(raw) = 1
        emu == IF validinterlace /\ s.prevserrate # 0 /\ s.emucontrolsvicurrent < 0
               THEN BoolInt(vcur # s.prevvicurrent)
               ELSE s.emucontrolsvicurrent
        lowerfield ==
            IF ~validinterlace THEN 0
            ELSE IF emu = 1 THEN (IF vcur = 1 THEN 0 ELSE 1)
            ELSE IF emu = 0
                 THEN (IF v_start = s.oldvstart
                       THEN (IF s.oldlowerfield = 1 THEN 0 ELSE 1)
                       ELSE BoolInt(v_start < s.oldvstart))
            ELSE 0
    IN  [validinterlace |-> validinterlace,
         emucontrolsvicurrent |-> emu,
         lowerfield |-> lowerfield,
         oldlowerfield |-> s.oldlowerfield,
         prevserrate |-> BoolInt(validinterlace),
         prevvicurrent |-> IF validinterlace THEN vcur ELSE s.prevvicurrent,
         oldvstart |-> IF validinterlace THEN v_start ELSE s.oldvstart]

StartInterlace(s, r, raw, v_start) ==
    LET vcur == r.VI_V_CURRENT_LINE % 2
        validinterlace == ctrl_type(raw) \div 2 = 1 /\ ctrl_serrate(raw) = 1
        emu == IF validinterlace /\ s.prevserrate # 0 /\ s.emucontrolsvicurrent < 0
               THEN BoolInt(vcur # s.prevvicurrent)
               ELSE s.emucontrolsvicurrent
        lowerfield ==
            IF ~validinterlace THEN 0
            ELSE IF emu = 1 THEN (IF vcur = 1 THEN 0 ELSE 1)
            ELSE IF emu = 0
                 THEN (IF v_start = s.oldvstart
                       THEN (IF s.oldlowerfield = 1 THEN 0 ELSE 1)
                       ELSE BoolInt(v_start < s.oldvstart))
            ELSE 0
    IN  [validinterlace |-> validinterlace,
         emucontrolsvicurrent |-> emu,
         lowerfield |-> lowerfield,
         oldlowerfield |-> lowerfield,
         prevserrate |-> BoolInt(validinterlace),
         prevvicurrent |-> IF validinterlace THEN vcur ELSE s.prevvicurrent,
         oldvstart |-> IF validinterlace THEN v_start ELSE s.oldvstart]

\* StartVertical without the clamp of hres to the prescale width (line 302)
StartVertical_NoHresClamp(r, h) ==
    LET vstartoffset == IF h.ispal THEN 44 ELSE 34
        v_start1 == CDiv(h.v_start - vstartoffset, 2)
        vneg     == v_start1 < 0
        v_start  == IF vneg THEN 0 ELSE v_start1
    IN  [vstartoffset |-> vstartoffset,
         v_start |-> v_start,
         y_start |-> Bits(r.VI_Y_SCALE, 16, 12),
         y_add |-> Bits(r.VI_Y_SCALE, 0, 12),
         hres |-> h.hres,
         hres_clamped |-> FALSE,
         vres |-> h.vres]

\* lines 286-312: vertical offset, top clamp, clamps to the prescale area
StartVertical(r, h) ==
    LET vstartoffset == IF h.ispal THEN 44 ELSE 34
        v_start1 == CDiv(h.v_start - vstartoffset, 2)
        y_start0 == Bits(r.VI_Y_SCALE, 16, 12)
        y_add    == Bits(r.VI_Y_SCALE, 0, 12)
        vneg     == v_start1 < 0
        v_start  == IF vneg THEN 0 ELSE v_start1
        hres_clamped == (h.hres + h.h_start) > PRESCALE_WIDTH
        vres_clamped == (h.vres + v_start) > PRESCALE_HEIGHT
    IN  [vstartoffset |-> vstartoffset,
         v_start |-> v_start,
         y_start |-> IF vneg THEN y_start0 + y_add * (-v_start1) ELSE y_start0,
         y_add |-> y_add,
         hres |-> IF hres_clamped THEN PRESCALE_WIDTH - h.h_start ELSE h.hres,
         hres_clamped |-> hres_clamped,
         vres |-> IF vres_clamped THEN PRESCALE_HEIGHT - v_start ELSE h.vres]

\* a right margin as wide as the left one
BandMax_EightPixels(hres_clamped, hres) == IF hres_clamped THEN hres ELSE hres - 8

\* lines 331-332: the blanking band
BandMin(h_start_clamped) == IF h_start_clamped THEN 0 ELSE 8
BandMax(hres_clamped, hres) == IF hres_clamped THEN hres ELSE hres - 7

\* lines 339-340
LineCount(raw) == IF ctrl_serrate(raw) = 1 THEN PRESCALE_WIDTH * 2 ELSE PRESCALE_WIDTH
PrescalePtr(v_start, linecount, h_start, lowerfield) ==
    v_start * linecount + h_start + (IF lowerfield = 1 THEN PRESCALE_WIDTH ELSE 0)

\* line 334: the blank-after-blank early return
BlankSkip(raw, prevwasblank) == ctrl_type(raw) \div 2 = 0 /\ prevwasblank # 0

\* lines 349-360: prevwasblank is assigned only inside #if ENABLE_TVFADEOUT
PrevWasBlank(raw, prevwasblank) ==
    IF ENABLE_TVFADEOUT # 0
    THEN BoolInt(ctrl_type(raw) \div 2 = 0)
    ELSE prevwasblank

\* lines 314-347 and the return value, given the decoded stages
StartFinish(s, r, h, il, v) ==
    LET lineshifter == IF ctrl_serrate(h.raw) = 1 THEN 0 ELSE 1
        vactivelines0 == h.v_sync - v.vstartoffset
        \* statics assigned before the first return (line 321)
        s1 == [s EXCEPT
                 !.v_start = v.v_start, !.h_start = h.h_start,
                 !.hres = v.hres, !.vres = v.vres,
                 !.ctrl = h.raw,
                 !.vbusclock = IF h.warn_vbus THEN 1 ELSE s.vbusclock,
                 !.nolerp = IF h.warn_nolerp THEN 1 ELSE s.nolerp,
                 !.fetch_filter = ctrl_type(h.raw) % 2,
                 !.v_sync = h.v_sync, !.x_add = h.x_add,
                 !.ispal = BoolInt(h.ispal),
                 !.x_start_init = h.x_start_init,
                 !.emucontrolsvicurrent = il.emucontrolsvicurrent,
                 !.oldlowerfield = il.oldlowerfield,
                 !.prevserrate = il.prevserrate,
                 !.prevvicurrent = il.prevvicurrent,
                 !.oldvstart = il.oldvstart,
                 !.y_start = v.y_start, !.y_add = v.y_add,
                 !.vactivelines = vactivelines0]
        validh == v.hres > 0 /\ h.h_start < PRESCALE_WIDTH
        \* lines 322-332
        s2 == [s1 EXCEPT
                 !.vactivelines = Shr(vactivelines0, lineshifter),
                 !.minhpass = BandMin(h.h_start_clamped),
                 !.maxhpass = BandMax(v.hres_clamped, v.hres)]
        \* lines 339-343 and 349-360
        s3 == [s2 EXCEPT
                 !.linecount = LineCount(h.raw),
                 !.prescale_ptr = PrescalePtr(v.v_start, LineCount(h.raw), h.h_start, il.lowerfield),
                 !.vi_width_low = Bits(r.VI_WIDTH, 0, 12),
                 !.frame_buffer = Bits(r.VI_ORIGIN, 0, 24)]
        s4 == [s3 EXCEPT !.prevwasblank = PrevWasBlank(h.raw, s.prevwasblank)]
        out(st, ret, where) ==
            [st |-> st, ret |-> ret, exit |-> where,
             lowerfield |-> il.lowerfield,
             validinterlace |-> il.validinterlace,
             h_start_clamped |-> h.h_start_clamped,
             hres_clamped |-> v.hres_clamped,
             warn_vbus |-> h.warn_vbus, warn_nolerp |-> h.warn_nolerp]
    IN  IF vactivelines0 < 0 THEN out(s1, 0, "novactive")
        ELSE IF BlankSkip(h.raw, s.prevwasblank) THEN out(s2, 0, "blank")
        ELSE IF Bits(r.VI_ORIGIN, 0, 24) = 0 THEN out(s3, 0, "noorigin")
        ELSE out(s4, BoolInt(validh), "end")

\* the one element of a singleton set
The(S) == CHOOSE x \in S : TRUE

vi_process_start(s, r) ==
    The({ The({ StartFinish(s, r, h, il, The({StartVertical(r, h)})) :
                    il \in {StartInterlace(s, r, h.raw, h.v_start)} }) :
            h \in {StartHorizontal(s, r)} })

-----------------------------------------------------------------------------
(* vi_process_end: crop the overscan, derive the output height, upload.    *)
(* The result is the argument list of screen_upload (buffer as an offset   *)
(* into prescale).                                                         *)

vi_process_end(s, widescreen) ==
    LET serrate == ctrl_serrate(s.ctrl)
        width   == s.maxhpass - s.minhpass
        height  == s.vres * Pow2(serrate)
        oh0     == CDiv((s.vres * 2) * V_SYNC_NTSC, s.v_sync)
        x       == s.h_start + s.minhpass
        y       == (s.v_start + s.oldlowerfield) * Pow2(serrate)
    IN  [buffer |-> x + y * PRESCALE_WIDTH,
         width |-> width,
         height |-> height,
         pitch |-> PRESCALE_WIDTH,
         output_height |-> IF widescreen THEN CDiv(oh0 * 9, 16) ELSE oh0]

-----------------------------------------------------------------------------
(* vi_update on the emulator thread with num_workers = 1: the three stages *)
(* run in sequence inside the call.  obs records what the call did.        *)

NoUpload == [buffer |-> 0, width |-> 0, height |-> 0, pitch |-> 0, output_height |-> 0]

ObsInit ==
    [updates |-> 0, blank |-> FALSE, prevblank |-> FALSE,
     ret |-> 0, exit |-> "none",
     middle |-> FALSE, upload |-> FALSE, swap |-> FALSE,
     lowerfield |-> 0, h_start_clamped |-> FALSE, hres_clamped |-> FALSE,
     uploaded |-> NoUpload]

\* what vi_update leaves behind for registers r, the result res of the start
\* stage and the previous obs o
ViUpdateObs(o, r, res, widescreen) ==
    LET run == res.ret # 0
    IN  [updates |-> 1,
         blank |-> ctrl_type(r.VI_STATUS) \div 2 = 0,
         prevblank |-> o.updates = 1 /\ o.blank,
         ret |-> res.ret, exit |-> res.exit,
         middle |-> run, upload |-> run, swap |-> run,
         lowerfield |-> res.lowerfield,
         h_start_clamped |-> res.h_start_clamped,
         hres_clamped |-> res.hres_clamped,
         uploaded |-> IF run THEN vi_process_end(res.st, widescreen) ELSE NoUpload]

-----------------------------------------------------------------------------
(* Register states.  A register word is kept raw (start << 16 | end), so   *)
(* the decode is the code's shifts and masks.                              *)

Word(hi, lo) == hi * 65536 + lo

RegZero ==
    [VI_STATUS |-> 0, VI_ORIGIN |-> 0, VI_WIDTH |-> 0, VI_V_CURRENT_LINE |-> 0,
     VI_X_SCALE |-> 0, VI_Y_SCALE |-> 0, VI_H_START |-> 0, VI_V_START |-> 0,
     VI_V_SYNC |-> 0]

\* NTSC 320x240 RGBA5551, no interlace
Scenario1 ==
    [VI_STATUS |-> 12290, VI_ORIGIN |-> 1048576, VI_WIDTH |-> 320,
     VI_V_CURRENT_LINE |-> 0, VI_X_SCALE |-> 512, VI_Y_SCALE |-> 1024,
     VI_H_START |-> Word(108, 596), VI_V_START |-> Word(37, 517),
     VI_V_SYNC |-> 525]

HStarts == {0, 100, 108, 128, 200, 748, 1000}
HEnds   == {0, 110, 215, 596, 768, 1023}
VStarts == {0, 33, 34, 37, 44, 45, 600, 1023}
VEnds   == {0, 37, 517, 1023}
VSyncs  == {0, 33, 34, 43, 44, 550, 551, 1023}
XScales == {512, Word(512, 1024), Word(4095, 4095)}

\* type x aa_mode in {0, 3}, progressive
StatusVals == {ty + 256 * aa + 12288 : ty \in 0..3, aa \in {0, 3}}

HSlice == {[Scenario1 EXCEPT !.VI_H_START = Word(s, e), !.VI_V_SYNC = vs] :
              s \in HStarts, e \in HEnds, vs \in {V_SYNC_NTSC, V_SYNC_PAL}}
XSlice == {[Scenario1 EXCEPT !.VI_H_START = Word(s, 596), !.VI_X_SCALE = x, !.VI_V_SYNC = vs] :
              s \in {0, 100, 108}, x \in XScales, vs \in {V_SYNC_NTSC, V_SYNC_PAL}}
VSlice == {[Scenario1 EXCEPT !.VI_V_START = Word(s, e), !.VI_V_SYNC = vs] :
              s \in VStarts, e \in VEnds, vs \in {V_SYNC_NTSC, V_SYNC_PAL}}
SyncSlice == {[Scenario1 EXCEPT !.VI_V_SYNC = vs] : vs \in VSyncs}
ModeSlice == {[Scenario1 EXCEPT !.VI_STATUS = st] : st \in StatusVals}
\* blank and reserved types over windows and origins
BlankSlice == {[Scenario1 EXCEPT !.VI_STATUS = ty + 12288,
                                 !.VI_H_START = Word(s, e),
                                 !.VI_ORIGIN = og] :
              ty \in 0..1, s \in {0, 108, 200}, e \in {110, 596, 1023},
              og \in {0, 16777216, 1048576}}
OriginSlice == {[Scenario1 EXCEPT !.VI_ORIGIN = og] : og \in {0, 16777216}}

RegStates == HSlice \cup XSlice \cup VSlice \cup SyncSlice \cup ModeSlice
             \cup BlankSlice \cup OriginSlice

-----------------------------------------------------------------------------
(* SpecStart: vi_init, then any sequence of vi_update calls (normal mode,  *)
(* num_workers = 1) and further vi_init calls.                             *)

\* m_mutex holds its owner: a worker id, a caller's id, or Unlocked
Unlocked == -1
CallerId == [emu |-> -2, late |-> -3]

ConfigStart == [num_workers |-> 1, mode |-> "NORMAL", widescreen |-> FALSE]

PoolIdle ==
    /\ m_task = "none"
    /\ m_workers_active = 0
    /\ m_accept_work = TRUE
    /\ m_mutex = Unlocked
    /\ pc = <<>>
    /\ wpc = <<>>
    /\ pool = <<>>

MiddleIdle ==
    /\ loops = <<>>
    /\ written = <<>>

InitStart ==
    /\ regs = RegZero
    /\ config = ConfigStart
    /\ vi = ViInitHistory(ViZero)
    /\ obs = ObsInit
    /\ PoolIdle
    /\ MiddleIdle

\* vi_init(config)
StartViInit ==
    /\ vi' = ViInitHistory(vi)
    /\ obs' = ObsInit
    /\ UNCHANGED <<regs, config, poolVars, midVars>>

\* the guest programs the registers, then the emulator calls vi_update()
StartViUpdate ==
    \E r \in RegStates :
      \E res \in {vi_process_start(vi, r)} :
        /\ regs' = r
        /\ vi' = res.st
        /\ obs' = ViUpdateObs(obs, r, res, config.widescreen)
        /\ UNCHANGED <<config, poolVars, midVars>>

NextStart == StartViInit \/ StartViUpdate

SpecStart == InitStart /\ [][NextStart]_vars

-----------------------------------------------------------------------------
(* SpecField: vi_init, then up to MaxFieldFrames vi_update calls (normal   *)
(* mode, num_workers = 1) over interlaced and progressive register states: *)
(* the interlace history of lines 257-284.  Besides what the last call     *)
(* did, obs counts the frames since vi_init (frames), records whether all  *)
(* of them were valid-interlace frames with one VI_V_START and one         *)
(* VI_V_CURRENT_LINE (uniform), and keeps the validinterlace of the call.  *)

MaxFieldFrames == 4

\* line 257
ValidInterlace(r) == ctrl_type(r.VI_STATUS) \div 2 = 1 /\ ctrl_serrate(r.VI_STATUS) = 1

\* types 2 and 0, serrate on and off, both parities of the current line,
\* three vertical windows
FieldRegs ==
    {[Scenario1 EXCEPT !.VI_STATUS = 12288 + ty + 64 * se,
                       !.VI_V_CURRENT_LINE = vc,
                       !.VI_V_START = Word(vs, vs + 480)] :
        ty \in {0, 2, 3}, se \in {0, 1}, vc \in {0, 1, 2}, vs \in {35, 37}}

FieldObsInit == ObsInit @@ [frames |-> 0, uniform |-> TRUE, validinterlace |-> FALSE]

InitField ==
    /\ regs = RegZero
    /\ config = ConfigStart
    /\ vi = ViInitHistory(ViZero)
    /\ obs = FieldObsInit
    /\ PoolIdle
    /\ MiddleIdle

\* vi_init(config)
F_Init ==
    /\ vi' = ViInitHistory(vi)
    /\ obs' = FieldObsInit
    /\ UNCHANGED <<regs, config, poolVars, midVars>>

\* vi_update() on registers r
F_Update ==
    /\ obs.frames < MaxFieldFrames
    /\ \E r \in FieldRegs :
        \E res \in {vi_process_start(vi, r)} :
          /\ regs' = r
          /\ vi' = res.st
          /\ obs' = ViUpdateObs(obs, r, res, config.widescreen) @@
                    [frames |-> obs.frames + 1,
                     uniform |-> /\ obs.uniform
                                 /\ ValidInterlace(r)
                                 /\ obs.frames > 0 =>
                                      /\ r.VI_V_START = regs.VI_V_START
                                      /\ r.VI_V_CURRENT_LINE = regs.VI_V_CURRENT_LINE,
                     validinterlace |-> res.validinterlace]
    /\ UNCHANGED <<config, poolVars, midVars>>

NextField == F_Init \/ F_Update

SpecField == InitField /\ [][NextField]_vars

-----------------------------------------------------------------------------
(* vi_process_start_fast (lines 699-758): the frame size from the raw      *)
(* windows.  Statics written after an early return keep their old value;   *)
(* v_start and h_start are locals here, and no warning is emitted.         *)

StartFastResult(st, ret, where) ==
    [st |-> st, ret |-> ret, exit |-> where,
     lowerfield |-> 0, validinterlace |-> FALSE,
     h_start_clamped |-> FALSE, hres_clamped |-> FALSE,
     warn_vbus |-> FALSE, warn_nolerp |-> FALSE]

vi_process_start_fast(s, r) ==
    LET v_start == Bits(r.VI_V_START, 16, 10)
        h_start == Bits(r.VI_H_START, 16, 10)
        v_end   == Bits(r.VI_V_START, 0, 10)
        h_end   == Bits(r.VI_H_START, 0, 10)
        s1 == [s EXCEPT !.hres = h_end - h_start,
                        !.vres = Shr(v_end - v_start, 1)]
        s2 == [s1 EXCEPT !.x_add = Bits(r.VI_X_SCALE, 0, 12),
                         !.y_add = Bits(r.VI_Y_SCALE, 0, 12),
                         !.hres_raw = (Bits(r.VI_X_SCALE, 0, 12) * s1.hres) \div 1024,
                         !.vres_raw = (Bits(r.VI_Y_SCALE, 0, 12) * s1.vres) \div 1024]
        s3 == [s2 EXCEPT !.vi_width_low = Bits(r.VI_WIDTH, 0, 12),
                         !.frame_buffer = Bits(r.VI_ORIGIN, 0, 24)]
        s4 == [s3 EXCEPT !.ctrl = r.VI_STATUS,
                         !.v_sync = Bits(r.VI_V_SYNC, 0, 10)]
    IN  IF s1.hres <= 0 \/ s1.vres <= 0 THEN StartFastResult(s1, 0, "nosize")
        ELSE IF s2.hres_raw <= 0 \/ s2.vres_raw <= 0 THEN StartFastResult(s2, 0, "norawsize")
        ELSE IF r.VI_V_CURRENT_LINE % 2 = 1 THEN StartFastResult(s2, 0, "oddline")
        ELSE IF s3.frame_buffer = 0 THEN StartFastResult(s3, 0, "noorigin")
        ELSE IF ctrl_type(s4.ctrl) \div 2 = 0 THEN StartFastResult(s4, 0, "blank")
        ELSE StartFastResult(s4, 1, "end")

\* line 829 divides by v_sync, which the fast start stage does not check:
\* the division by zero traps (the process ends) or yields a quotient,
\* taken as 0, depending on the target
EndFastFaults(s) == s.v_sync = 0

\* lines 827-836: the argument list of screen_upload (buffer = prescale)
vi_process_end_fast(s, widescreen) ==
    LET filtered_height == IF EndFastFaults(s) THEN 0
                           ELSE CDiv((s.vres * 2) * V_SYNC_NTSC, s.v_sync)
        oh0 == CDiv(s.hres_raw * filtered_height, s.hres)
    IN  [buffer |-> 0,
         width |-> s.hres_raw,
         height |-> s.vres_raw,
         pitch |-> s.hres_raw,
         output_height |-> IF widescreen THEN CDiv(oh0 * 9, 16) ELSE oh0]

-----------------------------------------------------------------------------
(* vi_update (lines 844-894) with num_workers = 1, in both modes, with the *)
(* screenshot of the end stages (lines 692-696 and 838-841).               *)
(* A path is 0 (the empty string) or the number of a file name.  opened is *)
(* whether fopen succeeds (line 152), trap whether a division by zero      *)
(* ends the process.  The result holds the new statics (st) and what the   *)
(* call did: the fields of ViUpdateObs, shot (the path handed to           *)
(* vi_screenshot_write, 0 if none), opened, and the warnings emitted.      *)

\* the stages vi_update runs after a start stage that returned ret
StagesRun_SwapAlways(ret) == [middle |-> ret # 0, upload |-> ret # 0, swap |-> TRUE]

\* lines 877-893
StagesRun(ret) == [middle |-> ret # 0, upload |-> ret # 0, swap |-> ret # 0]

\* lines 692-696 and 838-841 with path pending: a non-empty path is written
\* once and cleared even when the file did not open
EndScreenshot_KeepOnFailure(path, opened) ==
    [shot |-> path, opened |-> path # 0 /\ opened,
     screenshot_path |-> IF opened THEN 0 ELSE path]

EndScreenshot(path, opened) ==
    [shot |-> path, opened |-> path # 0 /\ opened, screenshot_path |-> 0]

vi_update(s, cfg, r, opened, trap) ==
    LET s0  == [s EXCEPT !.vi_mode = cfg.mode]
        res == IF cfg.mode = "NORMAL" THEN vi_process_start(s0, r)
               ELSE vi_process_start_fast(s0, r)
        run == StagesRun(res.ret)
        died == /\ res.ret # 0 /\ cfg.mode # "NORMAL"
                /\ EndFastFaults(res.st) /\ trap
        shot == IF run.upload /\ ~died
                THEN EndScreenshot(res.st.screenshot_path, opened)
                ELSE [shot |-> 0, opened |-> FALSE,
                      screenshot_path |-> res.st.screenshot_path]
    IN  [st |-> [res.st EXCEPT !.screenshot_path = shot.screenshot_path],
         ret |-> res.ret,
         exit |-> IF died THEN "sigfpe" ELSE res.exit,
         middle |-> run.middle,
         upload |-> run.upload /\ ~died,
         swap |-> run.swap /\ ~died,
         lowerfield |-> res.lowerfield,
         h_start_clamped |-> res.h_start_clamped,
         hres_clamped |-> res.hres_clamped,
         uploaded |-> IF ~run.upload \/ died THEN NoUpload
                      ELSE IF cfg.mode = "NORMAL"
                           THEN vi_process_end(res.st, cfg.widescreen)
                           ELSE vi_process_end_fast(res.st, cfg.widescreen),
         shot |-> shot.shot, opened |-> shot.opened,
         warn_vbus |-> res.warn_vbus, warn_nolerp |-> res.warn_nolerp]

-----------------------------------------------------------------------------
(* SpecUpdate: vi_init, then any sequence of vi_update, vi_screenshot and  *)
(* vi_init calls and mode changes of the configuration (num_workers = 1).  *)
(* obs holds what the last call was (op) and did, the screenshot path that *)
(* was pending when it began (pending), and whether each warning had been  *)
(* emitted before it (ever_vbus, ever_nolerp), since the process started.  *)

\* paths handed to vi_screenshot: a file name, or 0, the empty string
ShotPaths == {0, 1}

UpdateRegs ==
    {Scenario1}
    \cup {[Scenario1 EXCEPT !.VI_ORIGIN = 0]}
    \cup {[Scenario1 EXCEPT !.VI_V_CURRENT_LINE = 1]}
    \cup {[Scenario1 EXCEPT !.VI_V_SYNC = vs] : vs \in {0, 33}}
    \cup {[Scenario1 EXCEPT !.VI_STATUS = st] : st \in {12288, 12290 + 32, 12290 + 768}}
    \cup {[Scenario1 EXCEPT !.VI_STATUS = 12290 + 32, !.VI_ORIGIN = 0]}
    \cup {[Scenario1 EXCEPT !.VI_X_SCALE = 0]}

UpdateObsInit ==
    ObsInit @@ [op |-> "init", shot |-> 0, opened |-> FALSE, pending |-> 0,
                warn_vbus |-> FALSE, warn_nolerp |-> FALSE,
                ever_vbus |-> FALSE, ever_nolerp |-> FALSE]

InitUpdate ==
    /\ regs = RegZero
    /\ config = ConfigStart
    /\ vi = ViInitHistory(ViZero)
    /\ obs = UpdateObsInit
    /\ PoolIdle
    /\ MiddleIdle

\* the process has not been ended by a trap
Running == obs.exit # "sigfpe"

EverVbus == obs.ever_vbus \/ obs.warn_vbus
EverNolerp == obs.ever_nolerp \/ obs.warn_nolerp

\* what a call other than vi_update leaves in obs
ObsAfter(op) ==
    [UpdateObsInit EXCEPT !.op = op, !.pending = vi.screenshot_path,
                          !.ever_vbus = EverVbus, !.ever_nolerp = EverNolerp]

\* vi_init(config)
U_Init ==
    /\ Running
    /\ vi' = ViInitHistory(vi)
    /\ obs' = ObsAfter("init")
    /\ UNCHANGED <<regs, config, poolVars, midVars>>

\* vi_screenshot(path)
U_Screenshot ==
    /\ Running
    /\ \E path \in ShotPaths :
        /\ vi' = [vi EXCEPT !.screenshot_path = path]
        /\ obs' = ObsAfter("screenshot")
    /\ UNCHANGED <<regs, config, poolVars, midVars>>

\* the frontend switches the VI mode of the configuration
U_SetMode ==
    /\ Running
    /\ \E m \in {"NORMAL", "FAST"} \ {config.mode} :
        config' = [config EXCEPT !.mode = m]
    /\ obs' = ObsAfter("config")
    /\ UNCHANGED <<regs, vi, poolVars, midVars>>

\* vi_update() on registers r
U_Update ==
    /\ Running
    /\ \E r \in UpdateRegs :
       \E opened \in IF vi.screenshot_path # 0 THEN BOOLEAN ELSE {FALSE} :
       \E trap \in IF Bits(r.VI_V_SYNC, 0, 10) = 0 THEN BOOLEAN ELSE {FALSE} :
        \E u \in {vi_update(vi, config, r, opened, trap)} :
          /\ regs' = r
          /\ vi' = u.st
          /\ obs' = [updates |-> 1,
                     blank |-> ctrl_type(r.VI_STATUS) \div 2 = 0,
                     prevblank |-> obs.updates = 1 /\ obs.blank,
                     ret |-> u.ret, exit |-> u.exit,
                     middle |-> u.middle, upload |-> u.upload, swap |-> u.swap,
                     lowerfield |-> u.lowerfield,
                     h_start_clamped |-> u.h_start_clamped,
                     hres_clamped |-> u.hres_clamped,
                     uploaded |-> u.uploaded,
                     op |-> "update", shot |-> u.shot, opened |-> u.opened,
                     pending |-> vi.screenshot_path,
                     warn_vbus |-> u.warn_vbus, warn_nolerp |-> u.warn_nolerp,
                     ever_vbus |-> EverVbus, ever_nolerp |-> EverNolerp]
    /\ UNCHANGED <<config, poolVars, midVars>>

NextUpdate == U_Init \/ U_Screenshot \/ U_SetMode \/ U_Update

SpecUpdate == InitUpdate /\ [][NextUpdate]_vars

-----------------------------------------------------------------------------
(* The worker pool of parallel.cpp and vi_update with num_workers # 1.     *)
(*                                                                         *)
(* Threads: the emulator thread "emu" (vi_update, then parallel_close),    *)
(* the workers 0..NumWorkers-1 (Parallel::do_work), and "late", a thread   *)
(* that enters Parallel::run while the destructor is running.              *)
(*                                                                         *)
(* std::condition_variable: a waiter is blocked (wpc = "waiting") until    *)
(* notify_all or a spurious wakeup unblocks it ("woken"); wait() returns   *)
(* once it has also re-acquired the mutex.  notify_all reaches only the    *)
(* threads blocked at that moment.                                         *)
(*                                                                         *)
(* m_workers_active is a std::atomic_size_t: the model keeps the           *)
(* representative nearest to 0 of its value modulo 2^64, so -1 stands for  *)
(* SIZE_MAX.  The member has no initialiser: before the first run() its    *)
(* value is 0 or garbage (UninitActive; every non-zero value behaves       *)
(* alike, because nothing decrements it before run() or wait() reads it).  *)

NumWorkers == 2
MaxFrames == 2
MaxSpurious == 1

Workers == 0 .. (NumWorkers - 1)
UninitActive == {0, 1}

PoolRegs == {Scenario1, [Scenario1 EXCEPT !.VI_ORIGIN = 0]}

ConfigPool == [num_workers |-> NumWorkers, mode |-> "NORMAL", widescreen |-> FALSE]

PoolInit ==
    [frames |-> 0, spurious |-> 0, crashed |-> FALSE, ctx |-> "none",
     joined |-> 0, stages |-> <<>>,
     calls |-> [w \in Workers |-> 0]]

Init ==
    /\ regs = RegZero
    /\ config = ConfigPool
    /\ vi = ViInitHistory(ViZero)
    /\ obs = ObsInit
    /\ m_task = "none"
    /\ m_workers_active \in UninitActive
    /\ m_accept_work = TRUE
    /\ m_mutex = Unlocked
    /\ pc = [emu |-> "idle", late |-> "outside"]
    /\ wpc = [w \in Workers |-> "start"]
    /\ pool = PoolInit
    /\ MiddleIdle

Alive == ~pool.crashed

\* m_signal_work.notify_all()
NotifyWork(wp) == [w \in Workers |-> IF wp[w] = "waiting" THEN "woken" ELSE wp[w]]

\* m_signal_done.notify_all()
NotifyDone(p) == [c \in DOMAIN p |-> IF p[c] = "wait_blocked" THEN "wait_woken" ELSE p[c]]

\* size_t decrement, modulo 2^64 (see above)
Decrement(a) == a - 1

----------------------------------------------------------------------------
(* Parallel::do_work(worker_id)                                            *)

\* line 67: std::unique_lock<std::mutex> ul(m_mutex), and line 72: ul.lock()
W_Lock(w) ==
    /\ Alive
    /\ wpc[w] \in {"start", "lock"}
    /\ m_mutex = Unlocked
    /\ m_mutex' = w
    /\ wpc' = [wpc EXCEPT ![w] = IF wpc[w] = "start" THEN "check" ELSE "dec"]
    /\ UNCHANGED <<viVars, m_task, m_workers_active, m_accept_work, pc, pool, midVars>>

\* line 68: while (m_accept_work); leaving the loop returns and unlocks
W_Check(w) ==
    /\ Alive
    /\ wpc[w] = "check"
    /\ IF m_accept_work
       THEN /\ wpc' = [wpc EXCEPT ![w] = "enter_wait"]
            /\ UNCHANGED m_mutex
       ELSE /\ wpc' = [wpc EXCEPT ![w] = "exited"]
            /\ m_mutex' = Unlocked
    /\ UNCHANGED <<viVars, m_task, m_workers_active, m_accept_work, pc, pool, midVars>>

\* line 69: m_signal_work.wait(ul) releases the mutex and blocks
W_Wait(w) ==
    /\ Alive
    /\ wpc[w] = "enter_wait"
    /\ wpc' = [wpc EXCEPT ![w] = "waiting"]
    /\ m_mutex' = Unlocked
    /\ UNCHANGED <<viVars, m_task, m_workers_active, m_accept_work, pc, pool, midVars>>

\* line 69: wait(ul) returns after re-acquiring the mutex
W_Wake(w) ==
    /\ Alive
    /\ wpc[w] = "woken"
    /\ m_mutex = Unlocked
    /\ m_mutex' = w
    /\ wpc' = [wpc EXCEPT ![w] = "unlock"]
    /\ UNCHANGED <<viVars, m_task, m_workers_active, m_accept_work, pc, pool, midVars>>

\* line 70: ul.unlock()
W_Unlock(w) ==
    /\ Alive
    /\ wpc[w] = "unlock"
    /\ m_mutex' = Unlocked
    /\ wpc' = [wpc EXCEPT ![w] = "call"]
    /\ UNCHANGED <<viVars, m_task, m_workers_active, m_accept_work, pc, pool, midVars>>

\* line 71: m_task(worker_id) is entered.  An empty std::function throws
\* std::bad_function_call, which leaves the thread function: std::terminate.
W_Call(w) ==
    /\ Alive
    /\ wpc[w] = "call"
    /\ IF m_task = "none"
       THEN /\ pool' = [pool EXCEPT !.crashed = TRUE]
            /\ UNCHANGED wpc
       ELSE /\ wpc' = [wpc EXCEPT ![w] = "in_task"]
            /\ pool' = [pool EXCEPT !.calls[w] =
                            IF m_task = "vi_process" THEN @ + 1 ELSE @]
    /\ UNCHANGED <<viVars, m_task, m_workers_active, m_accept_work, m_mutex, pc, midVars>>

\* line 71: the task returns
W_Return(w) ==
    /\ Alive
    /\ wpc[w] = "in_task"
    /\ wpc' = [wpc EXCEPT ![w] = "lock"]
    /\ UNCHANGED <<viVars, m_task, m_workers_active, m_accept_work, m_mutex, pc, pool, midVars>>

\* line 73: m_workers_active--
W_Dec(w) ==
    /\ Alive
    /\ wpc[w] = "dec"
    /\ m_workers_active' = Decrement(m_workers_active)
    /\ wpc' = [wpc EXCEPT ![w] = "notify"]
    /\ UNCHANGED <<viVars, m_task, m_accept_work, m_mutex, pc, pool, midVars>>

\* line 74: m_signal_done.notify_all()
W_Notify(w) ==
    /\ Alive
    /\ wpc[w] = "notify"
    /\ pc' = NotifyDone(pc)
    /\ wpc' = [wpc EXCEPT ![w] = "check"]
    /\ UNCHANGED <<viVars, m_task, m_workers_active, m_accept_work, m_mutex, pool, midVars>>

\* a condition variable may unblock a waiter spuriously
SpuriousWakeup ==
    /\ Alive
    /\ pool.spurious < MaxSpurious
    /\ pool' = [pool EXCEPT !.spurious = @ + 1]
    /\ \/ \E w \in Workers :
             /\ wpc[w] = "waiting"
             /\ wpc' = [wpc EXCEPT ![w] = "woken"]
             /\ UNCHANGED pc
       \/ /\ pc.emu = "wait_blocked"
          /\ pc' = [pc EXCEPT !.emu = "wait_woken"]
          /\ UNCHANGED wpc
    /\ UNCHANGED <<viVars, m_task, m_workers_active, m_accept_work, m_mutex, midVars>>

WorkerStep(w) ==
    \/ W_Lock(w) \/ W_Check(w) \/ W_Wait(w) \/ W_Wake(w) \/ W_Unlock(w)
    \/ W_Call(w) \/ W_Return(w) \/ W_Dec(w) \/ W_Notify(w)

----------------------------------------------------------------------------
(* Parallel::run(task), called by thread c through parallel_run            *)

Callers == {"emu", "late"}

\* c stands before line 44.  The late thread is the shutdown race: it is
\* scheduled there once the destructor has cleared m_accept_work and before
\* the pool is destroyed.
AtRunCheck(c) ==
    IF c = "emu"
    THEN pc.emu = "run_check"
    ELSE pc[c] = "outside" /\ ~m_accept_work /\ pc.emu # "closed"

\* where wait() returns to
WaitReturn(c) ==
    IF c = "emu"
    THEN (IF pool.ctx = "run" THEN "end" ELSE "close_dummy")
    ELSE "returned"

\* run without the test of lines 44-46: the task is always accepted
R_Check_NoRefusal(c) ==
    /\ Alive
    /\ AtRunCheck(c)
    /\ pc' = [pc EXCEPT ![c] = "run_task"]
    /\ pool' = [pool EXCEPT !.stages = Append(@, "run")]
    /\ UNCHANGED <<viVars, m_task, m_workers_active, m_accept_work, m_mutex, wpc, midVars>>

\* lines 44-46: refuse the task while the workers are stopping
R_Check(c) ==
    /\ Alive
    /\ AtRunCheck(c)
    /\ IF ~m_accept_work
       THEN /\ pc' = [pc EXCEPT ![c] = "threw"]
            /\ UNCHANGED pool
       ELSE /\ pc' = [pc EXCEPT ![c] = "run_task"]
            /\ pool' = [pool EXCEPT !.stages = Append(@, "run")]
    /\ UNCHANGED <<viVars, m_task, m_workers_active, m_accept_work, m_mutex, wpc, midVars>>

\* line 49: m_task = task
R_Task(c) ==
    /\ Alive
    /\ pc[c] = "run_task"
    /\ m_task' = "vi_process"
    /\ pool' = [pool EXCEPT !.calls = [w \in Workers |-> 0]]
    /\ pc' = [pc EXCEPT ![c] = "run_active"]
    /\ UNCHANGED <<viVars, m_workers_active, m_accept_work, m_mutex, wpc, midVars>>

\* line 50: m_workers_active = m_workers.size()
R_Active(c) ==
    /\ Alive
    /\ pc[c] = "run_active"
    /\ m_workers_active' = NumWorkers
    /\ pc' = [pc EXCEPT ![c] = "run_notify"]
    /\ UNCHANGED <<viVars, m_task, m_accept_work, m_mutex, wpc, pool, midVars>>

\* line 51: m_signal_work.notify_all(), then wait() is entered
R_Notify(c) ==
    /\ Alive
    /\ pc[c] = "run_notify"
    /\ wpc' = NotifyWork(wpc)
    /\ pc' = [pc EXCEPT ![c] = "wait_lock"]
    /\ pool' = [pool EXCEPT !.ctx = "run"]
    /\ UNCHANGED <<viVars, m_task, m_workers_active, m_accept_work, m_mutex, midVars>>

----------------------------------------------------------------------------
(* Parallel::wait()                                                        *)

\* line 79: lock the mutex; line 81: wait(ul) re-acquires it after a wakeup
Wait_Lock(c) ==
    /\ Alive
    /\ pc[c] \in {"wait_lock", "wait_woken"}
    /\ m_mutex = Unlocked
    /\ m_mutex' = CallerId[c]
    /\ pc' = [pc EXCEPT ![c] = "wait_check"]
    /\ UNCHANGED <<viVars, m_task, m_workers_active, m_accept_work, wpc, pool, midVars>>

\* lines 80-82: while (m_workers_active) m_signal_done.wait(ul); the workers
\* notify with the mutex held, so the test and the wait are one step
Wait_Check(c) ==
    /\ Alive
    /\ pc[c] = "wait_check"
    /\ m_mutex' = Unlocked
    /\ pc' = [pc EXCEPT ![c] = IF m_workers_active # 0 THEN "wait_blocked"
                                                      ELSE WaitReturn(c)]
    /\ UNCHANGED <<viVars, m_task, m_workers_active, m_accept_work, wpc, pool, midVars>>

----------------------------------------------------------------------------
(* Parallel::~Parallel(), through parallel_close() on the emulator thread  *)

\* line 22: wait()
C_Begin ==
    /\ Alive
    /\ pc.emu = "idle"
    /\ pc' = [pc EXCEPT !.emu = "wait_lock"]
    /\ pool' = [pool EXCEPT !.ctx = "close"]
    /\ UNCHANGED <<viVars, m_task, m_workers_active, m_accept_work, m_mutex, wpc, midVars>>

\* lines 25-27: a dummy task if none was ever set
C_Dummy ==
    /\ Alive
    /\ pc.emu = "close_dummy"
    /\ m_task' = IF m_task = "none" THEN "dummy" ELSE m_task
    /\ pc' = [pc EXCEPT !.emu = "close_stop"]
    /\ UNCHANGED <<viVars, m_workers_active, m_accept_work, m_mutex, wpc, pool, midVars>>

\* line 30: m_accept_work = false
C_Stop ==
    /\ Alive
    /\ pc.emu = "close_stop"
    /\ m_accept_work' = FALSE
    /\ pc' = [pc EXCEPT !.emu = "close_notify"]
    /\ UNCHANGED <<viVars, m_task, m_workers_active, m_mutex, wpc, pool, midVars>>

\* line 31: m_signal_work.notify_all()
C_Notify ==
    /\ Alive
    /\ pc.emu = "close_notify"
    /\ wpc' = NotifyWork(wpc)
    /\ pc' = [pc EXCEPT !.emu = "close_join"]
    /\ UNCHANGED <<viVars, m_task, m_workers_active, m_accept_work, m_mutex, pool, midVars>>

\* lines 34-39: join the workers in order, then clear the vector
C_Join ==
    /\ Alive
    /\ pc.emu = "close_join"
    /\ pool.joined < NumWorkers
    /\ wpc[pool.joined] = "exited"
    /\ pool' = [pool EXCEPT !.joined = @ + 1]
    /\ pc' = [pc EXCEPT !.emu = IF pool.joined + 1 = NumWorkers THEN "closed"
                                                                ELSE "close_join"]
    /\ UNCHANGED <<viVars, m_task, m_workers_active, m_accept_work, m_mutex, wpc, midVars>>

----------------------------------------------------------------------------
(* vi_update on the emulator thread, num_workers # 1                       *)

\* lines 844-884: the start stage; a frame with nothing to display returns
E_Update ==
    /\ Alive
    /\ pc.emu = "idle"
    /\ pool.frames < MaxFrames
    /\ \E r \in PoolRegs :
         \E res \in {vi_process_start(vi, r)} :
            /\ regs' = r
            /\ vi' = res.st
            /\ obs' = [ViUpdateObs(obs, r, res, config.widescreen) EXCEPT
                          !.upload = FALSE, !.swap = FALSE, !.uploaded = NoUpload]
            /\ pc' = [pc EXCEPT !.emu = IF res.ret # 0 THEN "run_check" ELSE "idle"]
            /\ pool' = [pool EXCEPT !.frames = @ + 1, !.stages = <<"start">>]
    /\ UNCHANGED <<config, m_task, m_workers_active, m_accept_work, m_mutex, wpc, midVars>>

\* line 890: vi_process_end: screen_upload and the pending screenshot
E_End ==
    /\ Alive
    /\ pc.emu = "end"
    /\ obs' = [obs EXCEPT !.upload = TRUE,
                          !.uploaded = vi_process_end(vi, config.widescreen)]
    /\ pool' = [pool EXCEPT !.stages = Append(@, "end")]
    /\ pc' = [pc EXCEPT !.emu = "swap"]
    /\ UNCHANGED <<regs, config, vi, m_task, m_workers_active, m_accept_work, m_mutex, wpc, midVars>>

\* line 893: screen_swap, and vi_update returns
E_Swap ==
    /\ Alive
    /\ pc.emu = "swap"
    /\ obs' = [obs EXCEPT !.swap = TRUE]
    /\ pool' = [pool EXCEPT !.stages = Append(@, "swap")]
    /\ pc' = [pc EXCEPT !.emu = "idle"]
    /\ UNCHANGED <<regs, config, vi, m_task, m_workers_active, m_accept_work, m_mutex, wpc, midVars>>

EmuStep ==
    \/ E_Update \/ R_Check("emu") \/ R_Task("emu") \/ R_Active("emu") \/ R_Notify("emu")
    \/ Wait_Lock("emu") \/ Wait_Check("emu") \/ E_End \/ E_Swap
    \/ C_Begin \/ C_Dummy \/ C_Stop \/ C_Notify \/ C_Join

LateStep ==
    \/ R_Check("late") \/ R_Task("late") \/ R_Active("late") \/ R_Notify("late")
    \/ Wait_Lock("late") \/ Wait_Check("late")

Next ==
    \/ EmuStep
    \/ LateStep
    \/ \E w \in Workers : WorkerStep(w)
    \/ SpuriousWakeup

Spec == Init /\ [][Next]_vars

\* Every thread that can take a step eventually takes one.  Spurious
\* wakeups and the late caller are not owed to anyone.
FairSpec ==
    /\ Init /\ [][Next]_vars
    /\ WF_vars(EmuStep)
    /\ \A w \in Workers : WF_vars(WorkerStep(w))

-----------------------------------------------------------------------------
(* vi_process: the scanline loop of the normal middle stage.               *)
(*                                                                         *)
(* The fetch functions (vi/fetch.c), the divot and lerp filters and the    *)
(* gamma stage are not part of the model: a colour is represented by the   *)
(* arguments it is computed from.  Within one scanline the cache markers   *)
(* are reset (line 490), so every cache entry a pixel reads was fetched    *)
(* during the same scanline, the current row with fetch state 0 and the    *)
(* next row with the scanline's fetchbugstate.  The uint32_t quantities    *)
(* stay far below 2^31 for the frames explored.                            *)
(*                                                                         *)
(* SpecMiddle processes one frame twice from the same statics: first with  *)
(* num_workers = 1 (vi_update line 886, the emulator thread's own call),   *)
(* then with num_workers = NumWorkers (line 884, one invocation per        *)
(* worker, interleaved scanline by scanline).                              *)

MidLines == 4

\* the emulator thread's own invocation; workers use their worker id
DirectCall == NumWorkers

\* vi.c line 480 calls parallel_worker_id(), which src/core/parallel.cpp does
\* not define; by the pool's description it returns, inside a task, the id
\* of the calling worker
parallel_worker_id(w) == w

\* parallel.cpp lines 109-112: worker_num, the number given to parallel_init
parallel_worker_num(cfg) == cfg.num_workers

\* lines 475, 479-480
j_start(cfg, id) == IF cfg.num_workers # 1 THEN parallel_worker_id(id) ELSE 0

\* a loop that visits every scanline whatever the number of workers
j_add_EveryLine(cfg) == 1

\* lines 477, 479, 481
j_add(cfg) == IF cfg.num_workers # 1 THEN parallel_worker_num(cfg) ELSE 1

\* lines 486-488, 494, 496-498 and the test of line 500
LineDecode(s, j) ==
    LET curry == s.y_start + j * s.y_add
        nexty == s.y_start + (j + 1) * s.y_add
        prevy == Shr(curry, 10)
    IN  [d |-> s.prescale_ptr + s.linecount * j,
         yfrac |-> Bits(curry, 5, 5),
         pixels |-> s.vi_width_low * prevy,
         nextpixels |-> s.vi_width_low + s.vi_width_low * prevy,
         samerow |-> prevy = Shr(nexty, 10)]

\* lines 500-503
FetchBugState(samerow, fetchbugstate) ==
    IF samerow THEN 2 ELSE Shr(fetchbugstate, 1)

\* lines 505-643 for pixel i: what d[i] receives.  <<>> is the 0 of line
\* 643; a colour is <<cur_x>> when only the current row is read, and
\* <<cur_x, scan_x, fetchbugstate, xfrac, yfrac>> when it is interpolated
\* with the next row (lines 614-632).
PixelValue(s, ln, fetchbugstate, i) ==
    LET x_start == s.x_start_init + i * s.x_add
        line_x  == Shr(x_start, 10)
        xfrac   == Bits(x_start, 5, 5)
        lerping == ctrl_aa_mode(s.ctrl) # VI_AA_REPLICATE /\ (xfrac # 0 \/ ln.yfrac # 0)
    IN  IF i >= s.minhpass /\ i < s.maxhpass
        THEN IF lerping
             THEN <<ln.pixels + line_x, ln.nextpixels + line_x, fetchbugstate, xfrac, ln.yfrac>>
             ELSE <<ln.pixels + line_x>>
        ELSE <<>>

\* lines 494 and 505-644: the cells scanline j writes, with their values
ScanlineCells(s, ln, fetchbugstate) ==
    [c \in {ln.d + i : i \in 0 .. (s.hres - 1)} |->
        PixelValue(s, ln, fetchbugstate, c - ln.d)]

\* lines 450-482: the locals at the loop head
LoopEntry(cfg, id) ==
    [j |-> j_start(cfg, id), fetchbugstate |-> 0, cache_init |-> FALSE, lines |-> {}]

NothingWritten == [cells |-> <<>>, bug |-> <<>>]

\* frames of 18 pixels by MidLines scanlines (and one of 2 pixels), over
\* vertical scales 1, 1/2, 1/2 with an offset, and 2, with and without
\* interpolation
MidRegs ==
    {[Scenario1 EXCEPT !.VI_H_START = Word(hs, he),
                       !.VI_V_START = Word(37, 37 + 2 * MidLines),
                       !.VI_Y_SCALE = ys,
                       !.VI_STATUS = 12290 + 256 * aa] :
        hs \in {108, 128}, he \in {110, 146},
        ys \in {1024, 512, Word(512, 512), 2048}, aa \in {0, VI_AA_REPLICATE}}

\* a frame the start stage accepted, about to be processed by line 886
InitMiddle ==
    /\ regs \in MidRegs
    /\ config = ConfigStart
    /\ \E res \in {vi_process_start(ViInitHistory(ViZero), regs)} :
          /\ res.ret # 0
          /\ vi = res.st
          /\ obs = ViUpdateObs(ObsInit, regs, res, config.widescreen)
    /\ PoolIdle
    /\ loops = (DirectCall :> LoopEntry(config, DirectCall))
    /\ written = (DirectCall :> NothingWritten)

LoopDone(id) == loops[id].j >= vi.vres

\* lines 484-664: one iteration of the scanline loop of invocation id
M_Line(id) ==
    /\ id \in DOMAIN loops
    /\ ~LoopDone(id)
    /\ \E ln \in {LineDecode(vi, loops[id].j)} :
        \E fbs \in {FetchBugState(ln.samerow, loops[id].fetchbugstate)} :
          /\ written' = [written EXCEPT ![id] =
                            [cells |-> ScanlineCells(vi, ln, fbs) @@ @.cells,
                             bug |-> (loops[id].j :> fbs) @@ @.bug]]
          /\ loops' = [loops EXCEPT ![id] =
                            [j |-> @.j + j_add(config),
                             fetchbugstate |-> fbs,
                             cache_init |-> @.cache_init \/ vi.y_add = 1024,
                             lines |-> @.lines \cup {@.j}]]
    /\ UNCHANGED <<viVars, poolVars>>

\* the same frame again with num_workers = NumWorkers: parallel_run hands
\* vi_process to every worker (line 884)
M_RunWorkers ==
    /\ config.num_workers = 1
    /\ LoopDone(DirectCall)
    /\ config' = [config EXCEPT !.num_workers = NumWorkers]
    /\ loops' = [w \in Workers |-> LoopEntry(config', w)] @@ loops
    /\ written' = [w \in Workers |-> NothingWritten] @@ written
    /\ UNCHANGED <<regs, vi, obs, poolVars>>

NextMiddle ==
    \/ M_RunWorkers
    \/ \E id \in 0 .. NumWorkers : M_Line(id)

SpecMiddle == InitMiddle /\ [][NextMiddle]_vars

-----------------------------------------------------------------------------
(* SpecPrescale: vi_init, then vi_update calls in both modes over frames   *)
(* with ordinary and with tall and wide windows, progressive and           *)
(* interlaced, and what the middle stage of each call writes to prescale.  *)
(* obs holds what the last call did and wrote: the lowest and the highest  *)
(* index of prescale it stored to (any = FALSE if it stored nothing).      *)

\* lines 117-118: the number of elements of prescale
PrescaleSize == PRESCALE_WIDTH * PRESCALE_HEIGHT

NoWrites == [any |-> FALSE, lo |-> 0, hi |-> 0]

\* lines 484-494, 505 and 640-643: vi_process stores d[i] for every i in
\* [0, hres) on every scanline j in [0, vres), d = prescale + prescale_ptr +
\* linecount * j (the workers' strides together cover the same scanlines)
MiddleWrites(s) ==
    IF s.vres <= 0 \/ s.hres <= 0 THEN NoWrites
    ELSE [any |-> TRUE,
          lo |-> s.prescale_ptr,
          hi |-> s.prescale_ptr + s.linecount * (s.vres - 1) + (s.hres - 1)]

\* lines 771-775 and 822: vi_process_fast stores dst[x] for every x in
\* [0, hres_raw) on every line y in [0, vres_raw), dst = prescale + y * hres_raw
FastWrites(s) ==
    IF s.vres_raw <= 0 \/ s.hres_raw <= 0 THEN NoWrites
    ELSE [any |-> TRUE,
          lo |-> 0,
          hi |-> (s.vres_raw - 1) * s.hres_raw + (s.hres_raw - 1)]

\* a store outside prescale
Overruns(wr) == wr.any /\ (wr.lo < 0 \/ wr.hi >= PrescaleSize)

PrescaleRegs ==
    {[Scenario1 EXCEPT !.VI_STATUS = 12290 + 64 * se,
                       !.VI_V_CURRENT_LINE = vc,
                       !.VI_V_START = vw,
                       !.VI_H_START = Word(108, 748),
                       !.VI_X_SCALE = sc[1],
                       !.VI_Y_SCALE = sc[2]] :
        se \in {0, 1}, vc \in {0, 1},
        vw \in {Word(35, 515), Word(37, 1023), Word(0, 1023)},
        sc \in {<<512, 1024>>, <<2048, 2048>>}}

PrescaleObsInit == ObsInit @@ [op |-> "init", wrote |-> NoWrites]

InitPrescale ==
    /\ regs = RegZero
    /\ config = ConfigStart
    /\ vi = ViInitHistory(ViZero)
    /\ obs = PrescaleObsInit
    /\ PoolIdle
    /\ MiddleIdle

\* no store outside prescale has happened: after one, what the process does
\* is not determined
Intact == obs.exit # "overrun"

\* vi_init(config)
P_Init ==
    /\ Intact
    /\ vi' = ViInitHistory(vi)
    /\ obs' = PrescaleObsInit
    /\ UNCHANGED <<regs, config, poolVars, midVars>>

\* the frontend switches the VI mode of the configuration
P_SetMode ==
    /\ Intact
    /\ \E m \in {"NORMAL", "FAST"} \ {config.mode} :
        config' = [config EXCEPT !.mode = m]
    /\ obs' = [PrescaleObsInit EXCEPT !.op = "config"]
    /\ UNCHANGED <<regs, vi, poolVars, midVars>>

\* vi_update() on registers r
P_Update ==
    /\ Intact
    /\ \E r \in PrescaleRegs :
        \E u \in {vi_update(vi, config, r, FALSE, FALSE)} :
         \E wr \in {IF ~u.middle THEN NoWrites
                    ELSE IF config.mode = "NORMAL" THEN MiddleWrites(u.st)
                    ELSE FastWrites(u.st)} :
          /\ regs' = r
          /\ vi' = u.st
          /\ obs' = [updates |-> 1,
                     blank |-> ctrl_type(r.VI_STATUS) \div 2 = 0,
                     prevblank |-> obs.updates = 1 /\ obs.blank,
                     ret |-> u.ret,
                     exit |-> IF Overruns(wr) THEN "overrun" ELSE u.exit,
                     middle |-> u.middle,
                     upload |-> u.upload /\ ~Overruns(wr),
                     swap |-> u.swap /\ ~Overruns(wr),
                     lowerfield |-> u.lowerfield,
                     h_start_clamped |-> u.h_start_clamped,
                     hres_clamped |-> u.hres_clamped,
                     uploaded |-> IF Overruns(wr) THEN NoUpload ELSE u.uploaded,
                     op |-> "update", wrote |-> wr]
    /\ UNCHANGED <<config, poolVars, midVars>>

NextPrescale == P_Init \/ P_SetMode \/ P_Update

SpecPrescale == InitPrescale /\ [][NextPrescale]_vars

-----------------------------------------------------------------------------
(* SpecColumns: one invocation of vi_process (lines 448-665) on a frame    *)
(* the start stage accepted, column by column, with its scanline caches.   *)
(*                                                                         *)
(* loops holds the locals of the invocation: the position (pc, j, i),      *)
(* x_start, yfrac, the four cache markers and cache_init.  written holds,  *)
(* for each of the four caches, the columns written since the scanline     *)
(* began, and (store) what each of its entries holds: the scanline and the *)
(* source row it was fetched for, kept from scanline to scanline as the    *)
(* arrays keep it.  For the checks loops also records the last step       *)
(* (last), the markers before it (was), the columns it read from each      *)
(* cache (rd), the range of the columns it indexed (lo, hi), and how many  *)
(* scanlines (lines) and cache swaps (swaps) the invocation has done.      *)

\* the capacity 0xa10 of each of the caches viaa_cache, viaa_cache_next,
\* divot_cache and divot_cache_next
CacheColumns == 2576

\* sampled x_add values: the multiples of 64 in [0, 0xfff] and their neighbours
ColumnXAdds == {x \in 0 .. 4095 : x % 64 \in {0, 1, 63}}

\* lines 531-549 (current row) and 551-569 (next row): the three-tap window
\* prev, line, next against the marker of the row
FetchRow_MarkerOnly(marker, p, l, n) ==
    IF p > marker THEN [marker |-> n, wr |-> {p, l, n}]
    ELSE IF l > marker THEN [marker |-> n, wr |-> {l}]
    ELSE IF n > marker THEN [marker |-> n, wr |-> {}]
    ELSE [marker |-> marker, wr |-> {}]

FetchRow(marker, p, l, n) ==
    IF p > marker THEN [marker |-> n, wr |-> {p, l, n}]
    ELSE IF l > marker THEN [marker |-> n, wr |-> {l, n}]
    ELSE IF n > marker THEN [marker |-> n, wr |-> {n}]
    ELSE [marker |-> marker, wr |-> {}]

\* lines 573-583: the fourth tap of the divot filter
FetchFar(marker, f) ==
    IF f > marker THEN [marker |-> f, wr |-> {f}]
    ELSE [marker |-> marker, wr |-> {}]

\* lines 585-607: the divot cache of a row; rd is what divot_filter reads
\* from the AA cache of the row
DivotRow(marker, p, l, n, f) ==
    IF l > marker THEN [marker |-> n, wr |-> {l, n}, rd |-> {p, l, n, f}]
    ELSE IF n > marker THEN [marker |-> n, wr |-> {n}, rd |-> {l, n, f}]
    ELSE [marker |-> marker, wr |-> {}, rd |-> {}]

\* line 529
Lerping(raw, xfrac, yfrac) ==
    ctrl_aa_mode(raw) # VI_AA_REPLICATE /\ (xfrac # 0 \/ yfrac # 0)

\* line 454
cache_marker_init(s) == Shr(s.x_start_init, 10) - 1

Markers(l) ==
    [cache_marker |-> l.cache_marker,
     cache_next_marker |-> l.cache_next_marker,
     divot_cache_marker |-> l.divot_cache_marker,
     divot_cache_next_marker |-> l.divot_cache_next_marker]

NoColumns ==
    [viaa_cache |-> {}, viaa_cache_next |-> {},
     divot_cache |-> {}, divot_cache_next |-> {}]

\* the entries of the arrays viaa_array and divot_array, none fetched yet
NoStore ==
    [viaa_cache |-> <<>>, viaa_cache_next |-> <<>>,
     divot_cache |-> <<>>, divot_cache_next |-> <<>>]

\* the entries cols of a cache filled for scanline j from source row row
Fill(entries, cols, j, row) == [c \in cols |-> <<j, row>>] @@ entries

\* the scanline begins with its markers left as the scanline before left
\* them
LineStart_KeepMarkers(s, l) ==
    [l EXCEPT !.pc = "for_i", !.i = 0,
              !.x_start = s.x_start_init,
              !.yfrac = Bits(s.y_start + l.j * s.y_add, 5, 5),
              !.last = "line", !.was = Markers(l),
              !.rd = [viaa_cache |-> {}, viaa_cache_next |-> {},
                      divot_cache |-> {}, divot_cache_next |-> {}]]

\* lines 484-498: the locals at the head of the column loop of scanline j
LineStart(s, l) ==
    [l EXCEPT !.pc = "for_i", !.i = 0,
              !.x_start = s.x_start_init,
              !.yfrac = Bits(s.y_start + l.j * s.y_add, 5, 5),
              !.cache_marker = cache_marker_init(s),
              !.cache_next_marker = cache_marker_init(s),
              !.divot_cache_marker =
                  IF ctrl_divot_enable(s.ctrl) = 1 THEN cache_marker_init(s) ELSE @,
              !.divot_cache_next_marker =
                  IF ctrl_divot_enable(s.ctrl) = 1 THEN cache_marker_init(s) ELSE @,
              !.last = "line", !.was = Markers(l),
              !.rd = [viaa_cache |-> {}, viaa_cache_next |-> {},
                      divot_cache |-> {}, divot_cache_next |-> {}]]

\* lines 450-481
ColumnEntry(cfg, id) ==
    [pc |-> "for_j", j |-> j_start(cfg, id), i |-> 0, x_start |-> 0, yfrac |-> 0,
     cache_marker |-> 0, cache_next_marker |-> 0,
     divot_cache_marker |-> 0, divot_cache_next_marker |-> 0,
     cache_init |-> FALSE,
     last |-> "entry",
     was |-> [cache_marker |-> 0, cache_next_marker |-> 0,
              divot_cache_marker |-> 0, divot_cache_next_marker |-> 0],
     rd |-> NoColumns, lo |-> 0, hi |-> 0, lines |-> 0, swaps |-> 0]

\* lines 505-643: column i of the scanline.  The result is the locals and
\* the cache columns after the column.
Column(s, l, w) ==
    LET divot == ctrl_divot_enable(s.ctrl) = 1
        base  == Shr(l.x_start, 10)
        p == base
        c == base + 1
        n == base + 2
        f == base + 3
        lerping == Lerping(s.ctrl, Bits(l.x_start, 5, 5), l.yfrac)
        ln == LineDecode(s, l.j)
        a1 == FetchRow(l.cache_marker, p, c, n)
        b1 == FetchRow(l.cache_next_marker, p, c, n)
        a2 == IF divot THEN FetchFar(a1.marker, f) ELSE [marker |-> a1.marker, wr |-> {}]
        b2 == IF divot THEN FetchFar(b1.marker, f) ELSE [marker |-> b1.marker, wr |-> {}]
        none == [marker |-> 0, wr |-> {}, rd |-> {}]
        d1 == IF divot THEN DivotRow(l.divot_cache_marker, p, c, n, f)
              ELSE [none EXCEPT !.marker = l.divot_cache_marker]
        d2 == IF divot THEN DivotRow(l.divot_cache_next_marker, p, c, n, f)
              ELSE [none EXCEPT !.marker = l.divot_cache_next_marker]
        \* lines 609-632: the colour selection and the lerp
        pick == IF divot
                THEN [viaa_cache |-> d1.rd, viaa_cache_next |-> d2.rd,
                      divot_cache |-> IF lerping THEN {c, n} ELSE {c},
                      divot_cache_next |-> IF lerping THEN {c, n} ELSE {}]
                ELSE [viaa_cache |-> IF lerping THEN {c, n} ELSE {c},
                      viaa_cache_next |-> IF lerping THEN {c, n} ELSE {},
                      divot_cache |-> {}, divot_cache_next |-> {}]
    IN  [l |-> [l EXCEPT !.i = l.i + 1,
                         !.x_start = l.x_start + s.x_add,
                         !.cache_marker = a2.marker,
                         !.cache_next_marker = b2.marker,
                         !.divot_cache_marker = d1.marker,
                         !.divot_cache_next_marker = d2.marker,
                         !.last = "column",
                         !.was = Markers(l),
                         !.rd = pick,
                         !.lo = p,
                         !.hi = IF divot THEN f ELSE n],
         w |-> [viaa_cache |-> w.viaa_cache \cup a1.wr \cup a2.wr,
                viaa_cache_next |-> w.viaa_cache_next \cup b1.wr \cup b2.wr,
                divot_cache |-> w.divot_cache \cup d1.wr,
                divot_cache_next |-> w.divot_cache_next \cup d2.wr,
                store |->
                  [viaa_cache |-> Fill(w.store.viaa_cache, a1.wr \cup a2.wr, l.j, ln.pixels),
                   viaa_cache_next |-> Fill(w.store.viaa_cache_next, b1.wr \cup b2.wr, l.j, ln.nextpixels),
                   divot_cache |-> Fill(w.store.divot_cache, d1.wr, l.j, ln.pixels),
                   divot_cache_next |-> Fill(w.store.divot_cache_next, d2.wr, l.j, ln.nextpixels)]]]

\* a swap after every scanline
SwapDue_EveryLine(cache_init, y_add) == y_add = 1024

\* line 646
SwapDue(cache_init, y_add) == ~cache_init /\ y_add = 1024

\* lines 646-663: the cache swap after the columns of a scanline
EndLine(s, cfg, l, w) ==
    LET divot == ctrl_divot_enable(s.ctrl) = 1
        swap == SwapDue(l.cache_init, s.y_add)
        l0 == [l EXCEPT !.pc = "for_j", !.j = l.j + j_add(cfg),
                        !.was = Markers(l), !.rd = NoColumns,
                        !.lines = l.lines + 1]
    IN  IF ~swap THEN [l |-> [l0 EXCEPT !.last = "noswap"], w |-> w]
        ELSE [l |-> [l0 EXCEPT
                       !.cache_marker = l.cache_next_marker,
                       !.cache_next_marker = cache_marker_init(s),
                       !.divot_cache_marker =
                           IF divot THEN l.divot_cache_next_marker ELSE @,
                       !.divot_cache_next_marker =
                           IF divot THEN cache_marker_init(s) ELSE @,
                       !.cache_init = TRUE,
                       !.last = "swap",
                       !.swaps = l.swaps + 1],
              w |-> [viaa_cache |-> w.viaa_cache_next,
                     viaa_cache_next |-> w.viaa_cache,
                     divot_cache |-> IF divot THEN w.divot_cache_next ELSE w.divot_cache,
                     divot_cache_next |-> IF divot THEN w.divot_cache ELSE w.divot_cache_next,
                     store |->
                       [viaa_cache |-> w.store.viaa_cache_next,
                        viaa_cache_next |-> w.store.viaa_cache,
                        divot_cache |-> IF divot THEN w.store.divot_cache_next
                                        ELSE w.store.divot_cache,
                        divot_cache_next |-> IF divot THEN w.store.divot_cache
                                             ELSE w.store.divot_cache_next]]]

\* short rows for every x_add in [0, 0xfff], with and without divot; and
\* for the sampled x_add values with a fractional start and with replicate
ShortRows ==
    {[Scenario1 EXCEPT !.VI_H_START = Word(108, 116),
                       !.VI_V_START = Word(37, 39),
                       !.VI_X_SCALE = xa,
                       !.VI_STATUS = 12290 + 16 * dv] :
        xa \in 0 .. 4095, dv \in {0, 1}}
    \cup
    {[Scenario1 EXCEPT !.VI_H_START = Word(108, 116),
                       !.VI_V_START = Word(37, 39),
                       !.VI_X_SCALE = Word(xs, xa),
                       !.VI_STATUS = 12290 + 16 * dv + 256 * aa] :
        xa \in ColumnXAdds, xs \in {0, 1000},
        dv \in {0, 1}, aa \in {0, VI_AA_REPLICATE}}

\* full-width rows: a window that starts at the left offset, and windows
\* that start before it (h_start clamped, x_start_init advanced)
WideRows ==
    {[Scenario1 EXCEPT !.VI_H_START = Word(hs, he),
                       !.VI_V_START = Word(37, 39),
                       !.VI_X_SCALE = Word(4095, xa),
                       !.VI_STATUS = 12290 + 16 * dv] :
        hs \in {0, 108}, he \in {748, 1023}, xa \in {1024, 4095}, dv \in {0, 1}}

\* three scanlines at several vertical scales
TallRows ==
    {[Scenario1 EXCEPT !.VI_H_START = Word(100, 116),
                       !.VI_V_START = Word(37, 43),
                       !.VI_X_SCALE = Word(512, 1536),
                       !.VI_Y_SCALE = ys,
                       !.VI_STATUS = 12290 + 16 * dv] :
        ys \in {1024, 512, Word(512, 1024), 2048}, dv \in {0, 1}}

\* the invocations: the direct call of line 886 on every frame, and the
\* workers' calls of line 884 on the frames of three scanlines
ColumnRuns ==
    {[r |-> r, cfg |-> ConfigStart, id |-> DirectCall] :
        r \in ShortRows \cup WideRows \cup TallRows}
    \cup {[r |-> r, cfg |-> [ConfigStart EXCEPT !.num_workers = NumWorkers], id |-> w] :
        r \in TallRows, w \in Workers}

InitColumns ==
    \E run \in ColumnRuns :
      \E res \in {vi_process_start(ViInitHistory(ViZero), run.r)} :
        /\ res.ret # 0
        /\ regs = run.r
        /\ config = run.cfg
        /\ vi = res.st
        /\ obs = ObsInit
        /\ PoolIdle
        /\ loops = ColumnEntry(run.cfg, run.id)
        /\ written = NoColumns @@ [store |-> NoStore]

\* lines 484-503: the scanline j begins
K_Line ==
    /\ loops.pc = "for_j"
    /\ loops.j < vi.vres
    /\ loops' = LineStart(vi, loops)
    /\ written' = NoColumns @@ [store |-> written.store]
    /\ UNCHANGED <<viVars, poolVars>>

\* lines 505-643: one column.  A column that indexes a cache at or beyond
\* its capacity runs into the neighbouring cache or past the array: what
\* the invocation does from there is not determined, and it is left at
\* "overrun".
K_Column ==
    /\ loops.pc = "for_i"
    /\ loops.i < vi.hres
    /\ \E k \in {Column(vi, loops, written)} :
         IF k.l.hi < CacheColumns
         THEN loops' = k.l /\ written' = k.w
         ELSE /\ loops' = [k.l EXCEPT !.pc = "overrun", !.rd = NoColumns,
                                      !.cache_marker = loops.cache_marker,
                                      !.cache_next_marker = loops.cache_next_marker,
                                      !.divot_cache_marker = loops.divot_cache_marker,
                                      !.divot_cache_next_marker = loops.divot_cache_next_marker]
              /\ written' = written
    /\ UNCHANGED <<viVars, poolVars>>

\* lines 646-663 and the step of the scanline loop
K_EndLine ==
    /\ loops.pc = "for_i"
    /\ loops.i >= vi.hres
    /\ \E e \in {EndLine(vi, config, loops, written)} :
         loops' = e.l /\ written' = e.w
    /\ UNCHANGED <<viVars, poolVars>>

\* line 665
K_Return ==
    /\ loops.pc = "for_j"
    /\ loops.j >= vi.vres
    /\ loops' = [loops EXCEPT !.pc = "done", !.last = "return"]
    /\ UNCHANGED <<viVars, poolVars, written>>

NextColumns == K_Line \/ K_Column \/ K_EndLine \/ K_Return

SpecColumns == InitColumns /\ [][NextColumns]_vars

-----------------------------------------------------------------------------
(* Claims about the start stage, checked under SpecStart                   *)

\* C8: after vi_process_start, whatever it returned, the active region lies
\* inside the prescale area: 0 <= h_start, 0 <= v_start,
\* h_start + hres <= PRESCALE_WIDTH and v_start + vres <= PRESCALE_HEIGHT.
C8_RegionInsidePrescale ==
    obs.updates = 1 =>
        /\ 0 <= vi.h_start
        /\ 0 <= vi.v_start
        /\ vi.h_start + vi.hres <= PRESCALE_WIDTH
        /\ vi.v_start + vi.vres <= PRESCALE_HEIGHT

\* C8 witness: a start stage that clamped hres to the prescale width and
\* returned 0 (zero origin)
C8_Witness ==
    /\ obs.updates = 1
    /\ obs.hres_clamped
    /\ obs.ret = 0
    /\ vi.h_start + vi.hres = PRESCALE_WIDTH

\* C9: once vi_process_start has computed the blanking band,
\* 0 <= minhpass <= maxhpass <= hres <= PRESCALE_WIDTH.
C9_BandOrdered ==
    (obs.updates = 1 /\ obs.exit # "novactive") =>
        /\ 0 <= vi.minhpass
        /\ vi.minhpass <= vi.maxhpass
        /\ vi.maxhpass <= vi.hres
        /\ vi.hres <= PRESCALE_WIDTH

\* C10: a blank-type vi_update that directly follows a blank-type vi_update
\* runs neither the middle stage nor screen_upload.
C10_BlankAfterBlankSkips ==
    (obs.updates = 1 /\ obs.blank /\ obs.prevblank) =>
        (~obs.middle /\ ~obs.upload)

\* the registers' horizontal window as decoded by lines 208-244
RegHStart(r)  == Bits(r.VI_H_START, 16, 10)
                    - (IF Bits(r.VI_V_SYNC, 0, 10) > V_SYNC_NTSC + 25 THEN 128 ELSE 108)
RegHres(r)    == Bits(r.VI_H_START, 0, 10) - Bits(r.VI_H_START, 16, 10)
RegXStart(r)  == Bits(r.VI_X_SCALE, 16, 12)
RegXAdd(r)    == Bits(r.VI_X_SCALE, 0, 12)

\* C16 as stated: for the scenario-1 registers vi_process_start yields
\* ispal = false, hres = 320, vres = 240, minhpass = 8, maxhpass = 313 and
\* prescale_ptr = v_start*640 + h_start.
C16_Scenario1AsStated ==
    (obs.updates = 1 /\ regs = Scenario1) =>
        /\ vi.ispal = 0
        /\ vi.hres = 320
        /\ vi.vres = 240
        /\ vi.minhpass = 8
        /\ vi.maxhpass = 313
        /\ vi.prescale_ptr = vi.v_start * 640 + vi.h_start

\* C16 amended: for the scenario-1 registers vi_process_start yields
\* ispal = false, hres = 488 (596 - 108), vres = 240, minhpass = 8,
\* maxhpass = 481 (hres - 7) and prescale_ptr = v_start*640 + h_start
\* (v_start = 1, h_start = 0), and returns 1.
C16_Scenario1 ==
    (obs.updates = 1 /\ regs = Scenario1) =>
        /\ vi.ispal = 0
        /\ vi.hres = 488
        /\ vi.vres = 240
        /\ vi.minhpass = 8
        /\ vi.maxhpass = 481
        /\ vi.v_start = 1
        /\ vi.h_start = 0
        /\ vi.prescale_ptr = vi.v_start * 640 + vi.h_start
        /\ obs.ret = 1

\* C16 witness: a vi_update on the scenario-1 registers that ran the frame
C16_Witness ==
    /\ obs.updates = 1
    /\ regs = Scenario1
    /\ obs.middle

\* C18 as stated: when the adjusted h_start is negative, x_start_init is
\* its register value plus x_add * (-h_start), hres is reduced by -h_start,
\* h_start is 0 and minhpass is 0; otherwise x_start_init and hres are as
\* decoded and minhpass is 8.
C18_LeftClampAsStated ==
    obs.updates = 1 =>
        IF RegHStart(regs) < 0
        THEN /\ vi.x_start_init = RegXStart(regs) + RegXAdd(regs) * (-RegHStart(regs))
             /\ vi.hres = RegHres(regs) + RegHStart(regs)
             /\ vi.h_start = 0
             /\ vi.minhpass = 0
        ELSE /\ vi.x_start_init = RegXStart(regs)
             /\ vi.hres = RegHres(regs)
             /\ vi.minhpass = 8

\* C18 amended: as stated for x_start_init and h_start; hres is the reduced
\* (or the decoded) width unless the later clamp of line 302 cut it to
\* PRESCALE_WIDTH - h_start; and minhpass is 0 (or 8) only if the start
\* stage got past the vactivelines test of line 320, which precedes the
\* assignment of minhpass.
C18_LeftClamp ==
    obs.updates = 1 =>
        /\ vi.hres = IF obs.hres_clamped THEN PRESCALE_WIDTH - vi.h_start
                     ELSE IF RegHStart(regs) < 0 THEN RegHres(regs) + RegHStart(regs)
                     ELSE RegHres(regs)
        /\ IF RegHStart(regs) < 0
           THEN /\ vi.x_start_init = RegXStart(regs) + RegXAdd(regs) * (-RegHStart(regs))
                /\ vi.h_start = 0
                /\ obs.exit # "novactive" => vi.minhpass = 0
           ELSE /\ vi.x_start_init = RegXStart(regs)
                /\ vi.h_start = RegHStart(regs)
                /\ obs.exit # "novactive" => vi.minhpass = 8

\* C18 witness: a processed frame whose h_start was clamped and whose
\* x_start_init was advanced
C18_Witness ==
    /\ obs.updates = 1
    /\ obs.ret = 1
    /\ RegHStart(regs) < 0
    /\ vi.x_start_init > RegXStart(regs)
    /\ vi.minhpass = 0

-----------------------------------------------------------------------------
(* Claims about the interlace history, checked under SpecField             *)

\* a vi_update step (vi_init leaves obs.updates = 0)
FieldUpdateStep == obs'.updates = 1 /\ obs'.frames = obs.frames + 1

DecidedValue == BoolInt(regs'.VI_V_CURRENT_LINE % 2 # vi.prevvicurrent)

\* C14 as stated: while emucontrolsvicurrent is undecided, the first
\* valid-interlace frame that follows a non-interlace frame sets it to
\* (VI_V_CURRENT_LINE & 1) != prevvicurrent.
C14_DecidedAfterNonInterlace ==
    [][(/\ FieldUpdateStep
        /\ vi.emucontrolsvicurrent < 0
        /\ obs.updates = 1 /\ ~obs.validinterlace
        /\ ValidInterlace(regs'))
       => vi'.emucontrolsvicurrent = DecidedValue]_vars

\* C14 amended: while emucontrolsvicurrent is undecided, a valid-interlace
\* frame sets it to (VI_V_CURRENT_LINE & 1) != prevvicurrent exactly when
\* the frame before it was a valid-interlace frame too (prevserrate set);
\* every other frame, in particular a valid-interlace frame that follows a
\* non-interlace frame or vi_init, leaves it undecided.  Once decided it
\* changes only through vi_init.
C14_DecidedOnSecondInterlace ==
    [][FieldUpdateStep =>
          vi'.emucontrolsvicurrent =
              IF vi.emucontrolsvicurrent < 0
                 /\ ValidInterlace(regs')
                 /\ obs.updates = 1 /\ obs.validinterlace
              THEN DecidedValue
              ELSE vi.emucontrolsvicurrent]_vars

\* C14 witness: the emulator was found to drive VI_V_CURRENT_LINE on the
\* second of two valid-interlace frames
C14_Witness ==
    /\ obs.updates = 1
    /\ obs.frames = 2
    /\ obs.validinterlace
    /\ vi.emucontrolsvicurrent = 1

\* C15: after vi_init, while every vi_update has (type & 2) and serrate
\* set and VI_V_START and VI_V_CURRENT_LINE keep their values, lowerfield
\* of each frame after the first is the complement of the preceding one.
C15_LowerfieldAlternates ==
    [][(FieldUpdateStep /\ obs.frames >= 1 /\ obs'.uniform)
       => obs'.lowerfield = 1 - obs.lowerfield]_vars

\* C15 witness: the third frame of such a sequence, in the upper field
\* again
C15_Witness ==
    /\ obs.updates = 1
    /\ obs.uniform
    /\ obs.frames = 3
    /\ obs.lowerfield = 0
    /\ vi.emucontrolsvicurrent = 0

-----------------------------------------------------------------------------
(* Claims about the worker pool, checked under Spec and FairSpec           *)

RunReturned == pc.emu \in {"end", "swap"}

\* C1: for each run(task), every worker invokes task(worker_id) exactly
\* once: no worker has skipped the task when run returns, and no worker
\* invokes a published task a second time before the next run publishes a
\* new one, nor while the pool is being closed.
C1_TaskOncePerRun ==
    \A w \in Workers :
        /\ pool.calls[w] <= 1
        /\ RunReturned => pool.calls[w] = 1

\* C2: every run called while the pool accepts work eventually returns.
C2_RunReturns ==
    (pc.emu = "run_check" /\ m_accept_work) ~> RunReturned

\* C3: the stages of vi_update come in the order start, run, end, swap, and
\* from the moment run returns until vi_update returns (screen_upload, the
\* screenshot, screen_swap) no worker is executing the task; nor is one
\* while the next run is being published.
C3_RunIsBarrier ==
    /\ (RunReturned \/ pc.emu \in {"run_check", "run_task", "run_active", "run_notify"})
           => \A w \in Workers : wpc[w] # "in_task"
    /\ pool.stages \in {<<>>, <<"start">>, <<"start", "run">>,
                        <<"start", "run", "end">>, <<"start", "run", "end", "swap">>}

\* C4: close eventually completes, with every worker out of its loop and
\* joined.
C4_CloseCompletes ==
    (pool.ctx = "close") ~> (pc.emu = "closed" /\ \A w \in Workers : wpc[w] = "exited")

-----------------------------------------------------------------------------
(* Claims about the middle stage, checked under SpecMiddle                 *)

WorkersRan == config.num_workers # 1

WorkersDone == WorkersRan /\ \A w \in Workers : LoopDone(w)

StrideClass(w) == {j \in 0 .. (vi.vres - 1) : j % NumWorkers = w}

FrameCells ==
    {vi.prescale_ptr + j * vi.linecount + i :
        j \in 0 .. (vi.vres - 1), i \in 0 .. (vi.hres - 1)}

\* C6: with N > 1 workers, worker w processes exactly the scanlines j of
\* [0, vres) with j mod N = w; the sets of prescale indices written by
\* different workers are pairwise disjoint, and their union is exactly
\* {prescale_ptr + j*linecount + i : j in [0,vres), i in [0,hres)}.
C6_StridePartition ==
    WorkersRan =>
        /\ \A w \in Workers :
              /\ loops[w].lines \subseteq StrideClass(w)
              /\ LoopDone(w) => loops[w].lines = StrideClass(w)
        /\ \A w1, w2 \in Workers :
              w1 # w2 => DOMAIN written[w1].cells \cap DOMAIN written[w2].cells = {}
        /\ UNION {DOMAIN written[w].cells : w \in Workers} \subseteq FrameCells
        /\ WorkersDone =>
              UNION {DOMAIN written[w].cells : w \in Workers} = FrameCells

\* C6 witness: every worker has finished a frame of more scanlines than
\* workers and of positive width, each having written cells
C6_Witness ==
    /\ WorkersDone
    /\ vi.vres > NumWorkers
    /\ vi.hres > 0
    /\ \A w \in Workers : DOMAIN written[w].cells # {}

\* C7: for the same registers and RAM, the middle stage with N > 1 workers
\* writes the prescale contents the middle stage with num_workers = 1
\* writes: every cell receives a colour computed from the same fetch
\* arguments (source indices and fetchbugstate).
C7_SameAsSingleWorker ==
    WorkersDone =>
        \A w \in Workers :
            \A c \in DOMAIN written[w].cells :
                /\ c \in DOMAIN written[DirectCall].cells
                /\ written[w].cells[c] = written[DirectCall].cells[c]

-----------------------------------------------------------------------------
(* Claims about vi_update as a whole (SpecUpdate)                          *)

\* the last call was a vi_update that returned
UpdateReturned == obs.op = "update" /\ Running

\* the register conditions under which the start stage of the mode has
\* nothing to display: lines 317-321 and 345-347 (normal), 714-751 (fast)
NothingToDisplay(mode, r) ==
    LET v_sync == Bits(r.VI_V_SYNC, 0, 10)
        vstartoffset == IF v_sync > V_SYNC_NTSC + 25 THEN 44 ELSE 34
        hres == Bits(r.VI_H_START, 0, 10) - Bits(r.VI_H_START, 16, 10)
        vres == Shr(Bits(r.VI_V_START, 0, 10) - Bits(r.VI_V_START, 16, 10), 1)
    IN  IF mode = "NORMAL"
        THEN \/ Bits(r.VI_ORIGIN, 0, 24) = 0
             \/ v_sync - vstartoffset < 0
        ELSE \/ r.VI_V_CURRENT_LINE % 2 = 1
             \/ Bits(r.VI_ORIGIN, 0, 24) = 0
             \/ (Bits(r.VI_X_SCALE, 0, 12) * hres) \div 1024 <= 0
             \/ (Bits(r.VI_Y_SCALE, 0, 12) * vres) \div 1024 <= 0
             \/ ctrl_type(r.VI_STATUS) \div 2 = 0

\* C11: when the start stage of the current mode reports nothing to do (it
\* returned 0, as it does for a zero origin or negative vactivelines in
\* normal mode and for an odd current line, a zero origin, a non-positive
\* raw size or a type without the high bit in fast mode), vi_update returns
\* without the middle stage, without screen_upload and without screen_swap.
C11_NothingToDoSkipsFrame ==
    /\ obs.op = "update" /\ NothingToDisplay(config.mode, regs) => obs.ret = 0
    /\ obs.op = "update" /\ obs.ret = 0 =>
          /\ ~obs.middle /\ ~obs.upload /\ ~obs.swap
          /\ obs.uploaded = NoUpload /\ obs.shot = 0

\* a fast-mode call on an odd current line with a screenshot pending, and
\* nothing but the parity against the frame
C11_Witness ==
    /\ obs.op = "update" /\ config.mode = "FAST"
    /\ regs = [Scenario1 EXCEPT !.VI_V_CURRENT_LINE = 1]
    /\ obs.pending # 0
    /\ obs.ret = 0 /\ ~obs.middle /\ ~obs.upload /\ ~obs.swap

\* C12: over any sequence of vi_update and vi_init calls each of the two
\* warnings (vbus_clock_enable set; replicate with rgba5551) is emitted at
\* most once per process; once emitted its latch stays set, and the call that
\* warns goes on to process the frame as a call without the warning would.
C12_WarnOncePerProcess ==
    [][obs'.op = "update" =>
         /\ obs'.warn_vbus => ~EverVbus
         /\ obs'.warn_nolerp => ~EverNolerp
         /\ EverVbus \/ obs'.warn_vbus => vi'.vbusclock = 1
         /\ EverNolerp \/ obs'.warn_nolerp => vi'.nolerp = 1
         /\ obs'.warn_vbus \/ obs'.warn_nolerp =>
              \E quiet \in {vi_process_start(
                               [vi EXCEPT !.vbusclock = vi'.vbusclock,
                                          !.nolerp = vi'.nolerp,
                                          !.vi_mode = config.mode], regs')} :
                 /\ obs'.ret = quiet.ret
                 /\ obs'.middle = (quiet.ret # 0)
                 /\ obs'.swap = (quiet.ret # 0)
                 /\ vi' = [quiet.st EXCEPT !.screenshot_path = vi'.screenshot_path]
      ]_vars

\* a later frame with vbus_clock_enable set, after a vi_init, that is
\* displayed without a second warning
C12_Witness ==
    /\ obs.op = "update" /\ config.mode = "NORMAL"
    /\ ctrl_vbus_clock_enable(regs.VI_STATUS) = 1
    /\ obs.ever_vbus /\ ~obs.warn_vbus
    /\ vi.vbusclock = 1 /\ vi.nolerp = 1
    /\ obs.ret = 1 /\ obs.swap

\* C17: the pending screenshot path is handed to the writer exactly once, by
\* the first vi_update that reaches the end stage; a vi_update that skips the
\* frame leaves the path pending; after the attempt the path is cleared
\* whether or not the file opened, so a later frame writes nothing until
\* vi_screenshot is called again.
C17_ScreenshotOnce ==
    UpdateReturned =>
       IF obs.upload
       THEN obs.shot = obs.pending /\ vi.screenshot_path = 0
       ELSE obs.shot = 0 /\ vi.screenshot_path = obs.pending

\* a fast-mode frame whose screenshot file did not open
C17_Witness ==
    /\ UpdateReturned /\ config.mode = "FAST"
    /\ obs.upload /\ obs.pending = 1 /\ obs.shot = 1 /\ ~obs.opened
    /\ vi.screenshot_path = 0

-----------------------------------------------------------------------------
(* Claims about the scanline caches, checked under SpecColumns             *)

\* the caches, by name
Caches == {"viaa_cache", "viaa_cache_next", "divot_cache", "divot_cache_next"}

\* the marker of each cache
MarkerOf(l) ==
    [viaa_cache |-> l.cache_marker, viaa_cache_next |-> l.cache_next_marker,
     divot_cache |-> l.divot_cache_marker,
     divot_cache_next |-> l.divot_cache_next_marker]

\* C13: within the column loop of a scanline none of the four cache markers
\* decreases, and every entry a column reads from an AA or divot cache (in
\* the divot filter, the colour selection or the lerp) was written earlier
\* in the same scanline and is not beyond the marker of its cache.
C13_MarkersAndReads ==
    loops.last = "column" /\ loops.pc # "overrun" =>
       /\ loops.cache_marker >= loops.was.cache_marker
       /\ loops.cache_next_marker >= loops.was.cache_next_marker
       /\ loops.divot_cache_marker >= loops.was.divot_cache_marker
       /\ loops.divot_cache_next_marker >= loops.was.divot_cache_next_marker
       /\ \A ch \in Caches :
            \A col \in loops.rd[ch] :
               col \in written[ch] /\ col <= MarkerOf(loops)[ch]

\* a lerped column with divot, one source column after the column before
\* it, that fetched only its far tap
C13_Witness ==
    /\ loops.last = "column" /\ loops.pc # "overrun"
    /\ ctrl_divot_enable(vi.ctrl) = 1
    /\ loops.i > 1
    /\ loops.cache_marker = loops.was.cache_marker + 1
    /\ loops.divot_cache_marker = loops.was.divot_cache_marker + 1
    /\ loops.rd.divot_cache_next # {}

\* C19: on every accepted frame every column index used on the AA and divot
\* caches lies in [0, 0xA10).
C19_CacheIndexInRange ==
    loops.last = "column" => loops.lo >= 0 /\ loops.hi < CacheColumns

\* C20: an invocation of vi_process swaps the caches at most once, only when
\* y_add is 0x400 and then after the first scanline it processes; the swap
\* gives the markers of the current row the values of the next row's
\* markers and resets the next row's markers to (x_start_init >> 10) - 1
\* (the divot markers when divot is enabled).
C20_SwapOnce ==
    /\ loops.swaps <= 1
    /\ loops.swaps = 1 => vi.y_add = 1024
    /\ loops.lines >= 1 /\ vi.y_add = 1024 => loops.swaps = 1
    /\ loops.last = "swap" =>
          /\ loops.lines = 1 /\ loops.cache_init
          /\ loops.cache_marker = loops.was.cache_next_marker
          /\ loops.cache_next_marker = cache_marker_init(vi)
          /\ IF ctrl_divot_enable(vi.ctrl) = 1
             THEN /\ loops.divot_cache_marker = loops.was.divot_cache_next_marker
                  /\ loops.divot_cache_next_marker = cache_marker_init(vi)
             ELSE /\ loops.divot_cache_marker = loops.was.divot_cache_marker
                  /\ loops.divot_cache_next_marker = loops.was.divot_cache_next_marker

\* the second scanline of a worker's invocation with y_add = 0x400 has ended
\* without a second swap
C20_Witness ==
    /\ config.num_workers = NumWorkers
    /\ vi.y_add = 1024 /\ ctrl_divot_enable(vi.ctrl) = 1
    /\ loops.lines = 2 /\ loops.swaps = 1 /\ loops.last = "noswap"

-----------------------------------------------------------------------------
(* Claims about the field of the uploaded buffer and the decided driver of *)
(* VI_V_CURRENT_LINE, checked under SpecField                              *)

\* C21 as stated: the field vi_process_end uses for the row offset of the
\* upload buffer is the lowerfield of the frame before.
C21_EndUsesPreviousField ==
    [][FieldUpdateStep /\ obs.updates = 1 /\ obs'.upload =>
          vi'.oldlowerfield = obs.lowerfield]_vars

\* C21: the field vi_process_end uses for the row offset of the upload
\* buffer (oldlowerfield) is the lowerfield of the frame being uploaded, the
\* one vi_process_start computed prescale_ptr with: line 275 has assigned it
\* before the start stage returns.
C21_EndUsesCurrentField ==
    obs.updates = 1 /\ obs.upload =>
       /\ vi.oldlowerfield = obs.lowerfield
       /\ vi.prescale_ptr = PrescalePtr(vi.v_start, vi.linecount, vi.h_start, obs.lowerfield)
       /\ obs.uploaded.buffer =
             vi.h_start + vi.minhpass
             + ((vi.v_start + obs.lowerfield) * Pow2(ctrl_serrate(vi.ctrl))) * PRESCALE_WIDTH

\* a lower field uploaded after at least two frames before it
C21_Witness ==
    /\ obs.updates = 1 /\ obs.upload /\ obs.validinterlace
    /\ obs.frames >= 3 /\ obs.lowerfield = 1
    /\ vi.oldlowerfield = 1

\* C22: once emucontrolsvicurrent is decided (0 or 1) no vi_update changes
\* it, whatever the registers of the frame are; a vi_init, and nothing else,
\* returns it to undecided (-1).
C22_DecisionIsKept ==
    [][/\ vi.emucontrolsvicurrent \in {0, 1} /\ FieldUpdateStep =>
             vi'.emucontrolsvicurrent = vi.emucontrolsvicurrent
       /\ vi'.emucontrolsvicurrent = -1 /\ vi.emucontrolsvicurrent # -1 =>
             obs'.updates = 0
       /\ obs'.updates = 0 => vi'.emucontrolsvicurrent = -1
       /\ vi'.emucontrolsvicurrent \in {-1, 0, 1}]_vars

\* decided as driven by the emulator, and still so after four or more
\* frames that were not all alike, the last one a valid-interlace frame
C22_Witness ==
    /\ vi.emucontrolsvicurrent = 1
    /\ obs.updates = 1 /\ obs.frames >= 4
    /\ obs.validinterlace /\ ~obs.uniform
    /\ vi.prevvicurrent = 0 /\ obs.lowerfield = 1

-----------------------------------------------------------------------------
(* Claims about the prescale buffer, checked under SpecPrescale            *)

\* C23: on every frame vi_process_start accepts, progressive or interlaced
\* of either field, every index of prescale the normal middle stage stores
\* to lies in [0, PRESCALE_WIDTH * PRESCALE_HEIGHT).
C23_NormalWritesInside ==
    obs.op = "update" /\ config.mode = "NORMAL" /\ obs.wrote.any =>
       obs.wrote.lo >= 0 /\ obs.wrote.hi < PrescaleSize

\* C25: on every frame vi_process_start_fast accepts, every index of
\* prescale the fast middle stage stores to lies in
\* [0, PRESCALE_WIDTH * PRESCALE_HEIGHT).
C25_FastWritesInside ==
    obs.op = "update" /\ config.mode = "FAST" /\ obs.wrote.any =>
       obs.wrote.lo >= 0 /\ obs.wrote.hi < PrescaleSize

-----------------------------------------------------------------------------
(* A further claim about the worker pool, checked under Spec               *)

\* C24: in every reachable state of the pool, from its construction through
\* any number of run calls to the end of close, the counter of active
\* workers is between 0 and the number of workers: no worker decrements it
\* when it is 0.
C24_ActiveInRange ==
    m_workers_active >= 0 /\ m_workers_active <= NumWorkers

\* the source row each cache is filled from on scanline j (lines 486-498):
\* pixels for the current row, nextpixels for the row below it
RowOf(s, j) ==
    [viaa_cache |-> LineDecode(s, j).pixels,
     viaa_cache_next |-> LineDecode(s, j).nextpixels,
     divot_cache |-> LineDecode(s, j).pixels,
     divot_cache_next |-> LineDecode(s, j).nextpixels]

\* C26: every cache entry that contributes to a pixel of scanline j was
\* fetched while scanline j was being processed, from the source row of its
\* cache on that scanline; no entry left from an earlier scanline is used,
\* with or without the cache swap, for any y_add and any worker stride.
C26_NoStaleCacheEntry ==
    loops.last = "column" /\ loops.pc # "overrun" =>
       \A ch \in Caches :
          \A col \in loops.rd[ch] :
             /\ col \in DOMAIN written.store[ch]
             /\ written.store[ch][col] = <<loops.j, RowOf(vi, loops.j)[ch]>>

\* a column of a worker's second scanline, after the swap, reads an entry
\* of a cache that still holds entries of the worker's first scanline
C26_Witness ==
    /\ loops.last = "column" /\ loops.pc # "overrun"
    /\ config.num_workers = NumWorkers
    /\ loops.lines = 1 /\ loops.swaps = 1
    /\ loops.rd.viaa_cache_next # {}
    /\ \E col \in DOMAIN written.store.viaa_cache_next :
          written.store.viaa_cache_next[col][1] # loops.j

=============================================================================
